---- MODULE Spec2Model ----
(***************************************************************************)
(* A model of dax.py: the cannonical RUN/CLONE/GEN naming scheme, the      *)
(* Location abstraction (Local, Chirp), and the Generation / Trajectory /  *)
(* Project containers with their add / load_dax / write_dax operations.    *)
(*                                                                         *)
(* Python strings are modelled as sequences of one-character strings, so   *)
(* that formatting, regex search, basename, strip and fnmatch are computed *)
(* character by character as the code computes them.                       *)
(***************************************************************************)
EXTENDS Integers, Sequences, FiniteSets, TLC

VARIABLES
    naming,     \* the last call of a naming function: its inputs, the path, the result
    heap,       \* the Location objects constructed so far (object id = index)
    proj,       \* the Project's _prefix, _group, _platform, _projid, _name, _root
    data,       \* Project._data: run -> clone -> Trajectory (its Generations, their names)
    files,      \* filesystem: path -> content of each regular file
    dirs,       \* filesystem: the set of directories
    scopes,     \* stack of Location ids whose `with` scope is open
    resolved,   \* history: Locations resolved with success since the last scope exit
    last,       \* the last call made on the model: op, arguments, outcome
    procs       \* the other processes that resolve Locations on this filesystem

vars == <<naming, heap, proj, data, files, dirs, scopes, resolved, last, procs>>

----------------------------------------------------------------------------
(* Bounds of the model.                                                    *)

MaxId == 1
WideId == 10000
MaxLocs == 2

Ids == (0 .. MaxId) \cup {WideId}

----------------------------------------------------------------------------
(* Python string primitives.                                               *)

\* Python's None, for a value that is otherwise a string
None == <<>>

\* no exception was raised
NoError == "None"

EmptyMap == <<>>

DigitChars == <<"0", "1", "2", "3", "4", "5", "6", "7", "8", "9">>

IsDigit(ch) == ch \in {"0", "1", "2", "3", "4", "5", "6", "7", "8", "9"}

DigitVal(ch) == (CHOOSE i \in 1 .. 10 : DigitChars[i] = ch) - 1

RECURSIVE DecDigits(_)
\* '%d' % n for n >= 0
DecDigits(n) ==
    IF n < 10 THEN <<DigitChars[n + 1]>>
    ELSE DecDigits(n \div 10) \o <<DigitChars[(n % 10) + 1]>>

RECURSIVE ZeroPad4(_)
ZeroPad4(ds) == IF Len(ds) >= 4 THEN ds ELSE ZeroPad4(<<"0">> \o ds)

\* '%04d' % n: at least four digits, wider numbers widen the field
Fmt04d(n) == ZeroPad4(DecDigits(n))

RECURSIVE ParseInt(_)
\* int(ds) for a non-empty run of decimal digits
ParseInt(ds) ==
    IF Len(ds) = 0 THEN 0
    ELSE 10 * ParseInt(SubSeq(ds, 1, Len(ds) - 1)) + DigitVal(ds[Len(ds)])

\* s[i:] and s[:j] with Python's treatment of negative and out-of-range indices
PyIndex(s, i) ==
    IF i < 0 THEN (IF Len(s) + i < 0 THEN 0 ELSE Len(s) + i)
    ELSE IF i > Len(s) THEN Len(s) ELSE i

SliceFrom(s, i) == SubSeq(s, PyIndex(s, i) + 1, Len(s))

SliceTo(s, j) == SubSeq(s, 1, PyIndex(s, j))

\* whether sub occurs in s at 0-based offset i
OccursAt(s, sub, i) ==
    /\ i >= 0
    /\ i + Len(sub) <= Len(s)
    /\ Len(sub) = 0 \/ s[i + 1] = sub[1]
    /\ SubSeq(s, i + 1, i + Len(sub)) = sub

RECURSIVE FindFrom(_, _, _)
FindFrom(s, sub, i) ==
    IF i + Len(sub) > Len(s) THEN -1
    ELSE IF OccursAt(s, sub, i) THEN i
    ELSE FindFrom(s, sub, i + 1)

\* s.find(sub): the lowest 0-based offset of sub in s, or -1
Find(s, sub) == FindFrom(s, sub, 0)

StartsWith(s, p) == OccursAt(s, p, 0)

\* s.replace(old, new) for single characters
Replace(s, old, new) == [i \in 1 .. Len(s) |-> IF s[i] = old THEN new ELSE s[i]]

IsSpace(ch) == ch \in {" ", "\n", "\t", "\r"}

RECURSIVE LStrip(_)
LStrip(s) == IF Len(s) > 0 /\ IsSpace(s[1]) THEN LStrip(Tail(s)) ELSE s

RECURSIVE RStrip(_)
RStrip(s) ==
    IF Len(s) > 0 /\ IsSpace(s[Len(s)]) THEN RStrip(SubSeq(s, 1, Len(s) - 1)) ELSE s

\* s.strip()
Strip(s) == LStrip(RStrip(s))

sep == "/"

\* os.path.join(a, b) on a POSIX platform
Join(a, b) ==
    IF StartsWith(b, <<sep>>) THEN b
    ELSE IF Len(a) = 0 \/ a[Len(a)] = sep THEN a \o b
    ELSE a \o <<sep>> \o b

RECURSIVE LastSepFrom(_, _)
LastSepFrom(p, i) ==
    IF i < 1 THEN -1 ELSE IF p[i] = sep THEN i - 1 ELSE LastSepFrom(p, i - 1)

\* p.rfind('/') as posixpath uses it: the 0-based offset of the last
\* separator, or -1
LastSep(p) == LastSepFrom(p, Len(p))

\* os.path.basename(p): what follows the last separator
Basename(p) == SliceFrom(p, LastSep(p) + 1)

\* os.path.dirname(p) for the paths of the model (no root-only paths)
Dirname(p) ==
    LET i == LastSep(p)
    IN  IF i < 0 THEN <<>> ELSE IF i = 0 THEN <<sep>> ELSE SliceTo(p, i)

RECURSIVE FnMatch(_, _)
\* fnmatch.fnmatchcase(name, pat) for patterns made of literals, '*' and '?'
FnMatch(name, pat) ==
    IF Len(pat) = 0 THEN Len(name) = 0
    ELSE IF pat[1] = "*"
         THEN \/ FnMatch(name, Tail(pat))
              \/ Len(name) > 0 /\ FnMatch(Tail(name), pat)
    ELSE /\ Len(name) > 0
         /\ pat[1] = "?" \/ pat[1] = name[1]
         /\ FnMatch(Tail(name), Tail(pat))

----------------------------------------------------------------------------
(* Cannonical naming (dax.py, lines 20-95).                                *)

S_RUN == <<"R", "U", "N">>
S_CLONE == <<"C", "L", "O", "N", "E">>
S_GEN == <<"G", "E", "N">>

RECURSIVE DigitRun(_, _)
\* [0-9]+ matched greedily from 1-based position b, which holds a digit
DigitRun(path, b) ==
    IF b < Len(path) /\ IsDigit(path[b + 1])
    THEN <<path[b]>> \o DigitRun(path, b + 1)
    ELSE <<path[b]>>

RECURSIVE ReSearchFrom(_, _, _)
ReSearchFrom(lit, path, i) ==
    IF i + Len(lit) + 1 > Len(path) THEN None
    ELSE IF OccursAt(path, lit, i) /\ IsDigit(path[i + Len(lit) + 1])
    THEN DigitRun(path, i + Len(lit) + 1)
    ELSE ReSearchFrom(lit, path, i + 1)

\* re.compile(r'/TAG([0-9]+)').search(path): group(1) of the leftmost match,
\* or None
ReSearch(tag, path) == ReSearchFrom(<<sep>> \o tag, path, 0)

_re_run(path) == ReSearch(S_RUN, path)
_re_clone(path) == ReSearch(S_CLONE, path)
_re_gen(path) == ReSearch(S_GEN, path)

Ok(v) == [err |-> NoError, val |-> v]
Raise(e) == [err |-> e, val |-> <<>>]

read_cannonical_traj(path) ==
    LET m_run   == _re_run(path)
        m_clone == _re_clone(path)
    IN  IF m_run = None THEN Raise("ValueError")
        ELSE IF m_clone = None THEN Raise("ValueError")
        ELSE Ok(<<ParseInt(m_run), ParseInt(m_clone)>>)

read_cannonical(path) ==
    LET rc    == read_cannonical_traj(path)
        m_gen == _re_gen(path)
    IN  IF rc.err # NoError THEN rc
        ELSE IF m_gen = None THEN Raise("ValueError")
        ELSE Ok(<<rc.val[1], rc.val[2], ParseInt(m_gen)>>)

cannonical_traj(run, clone) ==
    Join(S_RUN \o Fmt04d(run), S_CLONE \o Fmt04d(clone))

cannonical(run, clone, gen) ==
    Join(cannonical_traj(run, clone), S_GEN \o Fmt04d(gen))

----------------------------------------------------------------------------
(* Location, Local, Chirp (dax.py, lines 110-346).                         *)

S_scheme == <<":", "/", "/">>
S_chirp == <<"c", "h", "i", "r", "p">>
S_file == <<"f", "i", "l", "e">>
S_tmp == <<"/", "t", "m", "p">>

\* Local.__init__ / Local._parse_url: name is what follows '://'
Local(url) ==
    Ok([cls |-> "Local", url |-> url, host |-> None, port |-> <<>>, remote |-> None,
        name |-> SliceFrom(url, Find(url, S_scheme) + 3)])

\* int(s) as Chirp._parse_url uses it: a non-empty run of digits, else ValueError
IsNumeral(s) == Len(s) > 0 /\ \A i \in 1 .. Len(s) : IsDigit(s[i])

\* Chirp.__init__ / Chirp._parse_url
Chirp(url) ==
    LET rest     == SliceFrom(url, Find(url, S_scheme) + 3)
        ix_port  == Find(rest, <<":">>)
        afterp   == SliceFrom(rest, ix_port + 1)
        port     == SliceTo(afterp, Find(afterp, <<"/">>))
        ix_host_end == IF ix_port >= 0 THEN ix_port ELSE Find(rest, <<"/">>)
        host     == SliceTo(rest, ix_host_end)
        remote   == SliceFrom(rest, Find(rest, <<"/">>))
    IN  IF ix_port >= 0 /\ ~IsNumeral(port) THEN Raise("ValueError")
        ELSE Ok([cls |-> "Chirp", url |-> url, host |-> host,
                 port |-> IF ix_port >= 0 THEN <<ParseInt(port)>> ELSE <<>>,
                 remote |-> remote, name |-> None])

\* Location.location(url): dispatch on the URL's prefix
Location_location(url) ==
    IF StartsWith(url, S_chirp) THEN Chirp(url)
    ELSE IF StartsWith(url, S_file) THEN Local(url)
    ELSE Raise("ValueError")

\* a cache name made of the host and the remote path
_get_local_name_host(loc) == Join(S_tmp, loc.host \o Replace(loc.remote, sep, "!"))

\* Chirp._get_local_name
_get_local_name(loc) == Join(S_tmp, Replace(loc.remote, sep, "!"))

\* os.path.exists(p): a regular file, or a directory (a trailing separator
\* names the directory itself)
NormDir(p) == IF Len(p) > 1 /\ p[Len(p)] = sep THEN SubSeq(p, 1, Len(p) - 1) ELSE p

IsFile(fl, p) == p \in DOMAIN fl

IsDir(ds, p) == NormDir(p) \in ds

Exists(fl, ds, p) == IsFile(fl, p) \/ IsDir(ds, p)

RECURSIVE Ancestors(_)
\* the directories above a path
Ancestors(p) ==
    LET d == Dirname(p)
    IN  IF d = p \/ Len(d) = 0 THEN {} ELSE {d} \cup Ancestors(d)

Without(f, k) == [x \in (DOMAIN f) \ {k} |-> f[x]]

----------------------------------------------------------------------------
(* Generation, Trajectory, Project: the containers (dax.py, lines 351-363, *)
(* 398-445, 479-593, 622-639).  A Generation's _names maps a basename to   *)
(* the id of a Location object.                                            *)

Generation(run, clone, gen) ==
    [run |-> run, clone |-> clone, gen |-> gen, _names |-> EmptyMap]

Trajectory(run, clone) ==
    [run |-> run, clone |-> clone, _generations |-> EmptyMap]

cannonical_project_name(group, platform, projid) ==
    group \o <<".">> \o platform \o <<".">> \o DecDigits(projid)

\* Project.__init__ with _update_name_root
Project(prefix, group, platform, projid) ==
    [_prefix |-> prefix, _group |-> group, _platform |-> platform, _projid |-> projid,
     _name |-> cannonical_project_name(group, platform, projid),
     _root |-> Join(prefix, cannonical_project_name(group, platform, projid))]

\* an add that raises for a tracked name only after it has replaced the entry
Generation_add_overwrite(self, lid, hp) ==
    LET name == Basename(hp[lid].url)
    IN  [self |-> [self EXCEPT !._names = (name :> lid) @@ self._names],
         err |-> IF name \in DOMAIN self._names THEN "DuplicateException" ELSE NoError]

Generation_add(self, lid, hp) ==
    LET name == Basename(hp[lid].url)
    IN  IF name \in DOMAIN self._names
        THEN [self |-> self, err |-> "DuplicateException"]
        ELSE [self |-> [self EXCEPT !._names = (name :> lid) @@ self._names],
              err |-> NoError]

\* a lookup that answers with some match when the pattern matches several names
Generation_location_any(self, pattern) ==
    LET matches == {n \in DOMAIN self._names : FnMatch(n, pattern)}
    IN  IF Cardinality(matches) >= 1
        THEN [err |-> NoError, res |-> self._names[CHOOSE n \in matches : TRUE]]
        ELSE [err |-> "ValueError", res |-> 0]

Generation_location(self, pattern) ==
    LET matches == {n \in DOMAIN self._names : FnMatch(n, pattern)}
    IN  IF Cardinality(matches) = 1
        THEN [err |-> NoError, res |-> self._names[CHOOSE n \in matches : TRUE]]
        ELSE IF Cardinality(matches) < 1
        THEN [err |-> "ValueError", res |-> 0]
        ELSE [err |-> "ValueError", res |-> 0]

\* a lookup that makes the Generation before it finds that it may not
Trajectory_generation_leak(self, gen, create) ==
    IF gen \notin DOMAIN self._generations
    THEN [self |-> [self EXCEPT !._generations =
                        (gen :> Generation(self.run, self.clone, gen)) @@ @],
          err |-> IF create THEN NoError ELSE "ValueError"]
    ELSE [self |-> self, err |-> NoError]

Trajectory_generation(self, gen, create) ==
    IF gen \notin DOMAIN self._generations /\ ~create
    THEN [self |-> self, err |-> "ValueError"]
    ELSE IF gen \notin DOMAIN self._generations /\ create
    THEN [self |-> [self EXCEPT !._generations =
                        (gen :> Generation(self.run, self.clone, gen)) @@ @],
          err |-> NoError]
    ELSE [self |-> self, err |-> NoError]

\* an add that starts the Generation anew each time
Trajectory_add_fresh(self, gen, lid, hp) ==
    LET self1 == [self EXCEPT !._generations =
                     (gen :> Generation(self.run, self.clone, gen)) @@ @]
        r == Generation_add(self1._generations[gen], lid, hp)
    IN  [self |-> [self1 EXCEPT !._generations[gen] = r.self], err |-> r.err]

Trajectory_add(self, gen, lid, hp) ==
    LET self1 == IF gen \notin DOMAIN self._generations
                 THEN [self EXCEPT !._generations =
                          (gen :> Generation(self.run, self.clone, gen)) @@ @]
                 ELSE self
        r == Generation_add(self1._generations[gen], lid, hp)
    IN  [self |-> [self1 EXCEPT !._generations[gen] = r.self], err |-> r.err]

\* a lookup that starts the run's dict anew whenever it makes a Trajectory
Project_trajectory_reset(d, run, clone, create) ==
    IF ~create
    THEN [data |-> d, err |-> IF run \in DOMAIN d /\ clone \in DOMAIN d[run]
                              THEN NoError ELSE "ValueError"]
    ELSE IF run \in DOMAIN d /\ clone \in DOMAIN d[run] THEN [data |-> d, err |-> NoError]
    ELSE [data |-> (run :> (clone :> Trajectory(run, clone))) @@ d, err |-> NoError]

Project_trajectory(d, run, clone, create) ==
    IF run \notin DOMAIN d /\ ~create THEN [data |-> d, err |-> "ValueError"]
    ELSE LET d1 == IF run \notin DOMAIN d THEN (run :> EmptyMap) @@ d ELSE d
         IN  IF clone \notin DOMAIN d1[run] /\ ~create
             THEN [data |-> d1, err |-> "ValueError"]
             ELSE IF clone \notin DOMAIN d1[run]
             THEN [data |-> [d1 EXCEPT ![run] = (clone :> Trajectory(run, clone)) @@ @],
                   err |-> NoError]
             ELSE [data |-> d1, err |-> NoError]

\* Project.generation: the Trajectory's lookup after the Project's
Project_generation(d, run, clone, gen, create) ==
    LET t == Project_trajectory(d, run, clone, create)
    IN  IF t.err # NoError THEN t
        ELSE LET g == Trajectory_generation(t.data[run][clone], gen, create)
             IN  [data |-> [t.data EXCEPT ![run][clone] = g.self], err |-> g.err]

\* an add that passes clone and run to the lookup in the wrong order
Project_add_swapped(d, run, clone, gen, lid, hp) ==
    LET t == Project_trajectory(d, clone, run, TRUE)
        r == Trajectory_add(t.data[clone][run], gen, lid, hp)
    IN  [data |-> [t.data EXCEPT ![clone][run] = r.self], err |-> r.err]

Project_add(d, run, clone, gen, lid, hp) ==
    LET t == Project_trajectory(d, run, clone, TRUE)
        r == Trajectory_add(t.data[run][clone], gen, lid, hp)
    IN  [data |-> [t.data EXCEPT ![run][clone] = r.self], err |-> r.err]

U_local == <<"f", "i", "l", "e", ":", "/", "/", "/", "R", "U", "N", "0", "/", "C", "L", "O", "N", "E", "0", "/", "r", "e", "s", "u", "l", "t", "s", "-", "0", ".", "x", "t", "c">>
U_chirp == <<"c", "h", "i", "r", "p", ":", "/", "/", "h", ":", "9", "/", "R", "U", "N", "0", "/", "C", "L", "O", "N", "E", "0", "/", "r", "e", "s", "u", "l", "t", "s", "-", "0", ".", "x", "t", "c">>
U_chirp2 == <<"c", "h", "i", "r", "p", ":", "/", "/", "h", "/", "R", "U", "N", "0", "/", "C", "L", "O", "N", "E", "1", "/", "r", "e", "s", "u", "l", "t", "s", "-", "1", ".", "t", "r", "r">>
U_dir == <<"f", "i", "l", "e", ":", "/", "/", "/", "d", "/">>

Urls == {U_local, U_chirp, U_chirp2, U_dir}

S_results == <<"r", "e", "s", "u", "l", "t", "s", "-">>

\* read_path of _test_load_write_project, the locator the drivers pass to
\* load_locations: RUN and CLONE by read_cannonical_traj, GEN from 'results-N'
read_path(path) ==
    LET rc == read_cannonical_traj(path)
        m  == ReSearch(S_results, path)
    IN  IF rc.err # NoError THEN rc
        ELSE IF m = None THEN Raise("ValueError")
        ELSE Ok(<<rc.val[1], rc.val[2], ParseInt(m)>>)

\* fn(loc.url) for the urls of the model, tabulated
fn == [url \in Urls |-> read_path(url)]

RECURSIVE LoadLocationsFrom(_, _, _, _)
\* Project.load_locations from entry i on: stops at the first entry that raises
LoadLocationsFrom(d, lids, i, hp) ==
    IF i > Len(lids) THEN [data |-> d, err |-> NoError, k |-> 0]
    ELSE LET c == fn[hp[lids[i]].url]
         IN  IF c.err # NoError THEN [data |-> d, err |-> c.err, k |-> i]
             ELSE LET a == Project_add(d, c.val[1], c.val[2], c.val[3], lids[i], hp)
                  IN  IF a.err # NoError THEN [data |-> a.data, err |-> a.err, k |-> i]
                      ELSE LoadLocationsFrom(a.data, lids, i + 1, hp)

\* a load_locations that skips the entry that raises and goes on
RECURSIVE LoadLocationsSkipping(_, _, _, _, _)
LoadLocationsSkipping(d, lids, i, hp, k) ==
    IF i > Len(lids) THEN [data |-> d, err |-> IF k = 0 THEN NoError ELSE "ValueError", k |-> k]
    ELSE LET c == fn[hp[lids[i]].url]
         IN  IF c.err # NoError
             THEN LoadLocationsSkipping(d, lids, i + 1, hp, IF k = 0 THEN i ELSE k)
             ELSE LET a == Project_add(d, c.val[1], c.val[2], c.val[3], lids[i], hp)
                  IN  LoadLocationsSkipping(a.data, lids, i + 1, hp,
                                            IF a.err # NoError /\ k = 0 THEN i ELSE k)

Project_load_locations_skip(d, lids, hp) == LoadLocationsSkipping(d, lids, 1, hp, 0)

Project_load_locations(d, lids, hp) == LoadLocationsFrom(d, lids, 1, hp)

Project__update_name_root(self) ==
    [self EXCEPT !._name = cannonical_project_name(self._group, self._platform, self._projid),
                 !._root = Join(self._prefix,
                                cannonical_project_name(self._group, self._platform,
                                                        self._projid))]

Project_set_group(self, group) ==
    Project__update_name_root([self EXCEPT !._group = group])

\* a setter that assigns the field and leaves name and root as they were
Project_set_platform_stale(self, platform) == [self EXCEPT !._platform = platform]

Project_set_platform(self, platform) ==
    Project__update_name_root([self EXCEPT !._platform = platform])

Project_set_projid(self, projid) ==
    Project__update_name_root([self EXCEPT !._projid = projid])

P_prefix == <<"t", "e", "s", "t", "s">>
P_group == <<"l", "c", "l", "s">>
P_platform == <<"f", "a", "h">>
P_projid == 10009

----------------------------------------------------------------------------
(* Pointer files: to_file, from_file, write_dax, load_dax (dax.py, lines   *)
(* 146-187, 366-395, 464-476, 655-663).  A dict is iterated in an order    *)
(* the caller does not control: the order is an input of each operator.    *)

\* the (run, clone, gen) coordinates the calls of the model use
Coords == {<<0, 0, 0>>, <<0, 1, 1>>}

\* open(path, 'w') needs a directory to write into and a path that is not one
CanWrite(ds, path) ==
    /\ ~IsDir(ds, path)
    /\ Len(Dirname(path)) = 0 \/ IsDir(ds, Dirname(path))

\* a to_file that overwrites whatever force says
Location_to_file_clobber(loc, path, force, fl, ds) ==
    IF CanWrite(ds, path) THEN [files |-> (path :> loc.url) @@ Without(fl, path),
                                err |-> NoError]
    ELSE [files |-> fl, err |-> "IOError"]

Location_to_file(loc, path, force, fl, ds) ==
    LET write == IF CanWrite(ds, path)
                 THEN [files |-> (path :> loc.url) @@ Without(fl, path), err |-> NoError]
                 ELSE [files |-> fl, err |-> "IOError"]
    IN  IF Exists(fl, ds, path) /\ force THEN write
        ELSE IF Exists(fl, ds, path) /\ ~force THEN [files |-> fl, err |-> NoError]
        ELSE write

\* a load_url that takes the path it is given for the url
Location_load_url_path(path, fl) == Strip(path)

Location_load_url(path, fl) == Strip(fl[path])

\* Location.from_file: open(path) raises for a directory or a missing file
Location_from_file(path, fl) ==
    IF ~IsFile(fl, path) THEN Raise("IOError")
    ELSE Location_location(Location_load_url(path, fl))

\* os.makedirs(dir): the directory and those above it; a regular file in
\* the way raises OSError
makedirs(dir, fl, ds) ==
    LET above == Ancestors(dir)
    IN  IF \E a \in above \cup {dir} : IsFile(fl, a)
        THEN [dirs |-> ds, err |-> "OSError"]
        ELSE [dirs |-> ds \cup {NormDir(dir)} \cup above, err |-> NoError]

\* whether path p is an entry of directory dir: dir, a separator, and a name
\* that holds no separator
IsEntry(p, dir) ==
    /\ Len(p) > Len(dir) + 1
    /\ SubSeq(p, 1, Len(dir)) = dir
    /\ p[Len(dir) + 1] = sep
    /\ \A i \in Len(dir) + 2 .. Len(p) : p[i] # sep

\* os.listdir(dir): the names of the entries of a directory
listdir(dir, fl, ds) ==
    {SubSeq(q, Len(NormDir(dir)) + 2, Len(q)) :
        q \in {x \in (DOMAIN fl) \cup ds : IsEntry(x, NormDir(dir))}}

\* the orders a set may be iterated in
Perms(S) ==
    {q \in [1 .. Cardinality(S) -> S] : \A i, j \in 1 .. Cardinality(S) : i # j => q[i] # q[j]}

\* the keys of a dict in the order a ranking of all keys puts them
InOrder(keys, ranking) == SelectSeq(ranking, LAMBDA x : x \in keys)

RECURSIVE WriteNames(_, _, _, _, _, _, _, _)
RECURSIVE WriteNamesAfter(_, _, _, _, _, _, _, _)
\* the loop of Generation.write_dax once to_file has returned w for the i-th
\* name: an error ends the call, otherwise the next name is written
WriteNamesAfter(w, names, order, i, gendir, force, ds, hp) ==
    IF w.err # NoError THEN [files |-> w.files, dirs |-> ds, err |-> w.err]
    ELSE WriteNames(names, order, i + 1, gendir, force, w.files, ds, hp)

\* the loop of Generation.write_dax from the i-th name on
WriteNames(names, order, i, gendir, force, fl, ds, hp) ==
    IF i > Len(order) THEN [files |-> fl, dirs |-> ds, err |-> NoError]
    ELSE WriteNamesAfter(Location_to_file(hp[names[order[i]]], Join(gendir, order[i]),
                                          force, fl, ds),
                         names, order, i, gendir, force, ds, hp)

cannonical_gen(gen) == cannonical(gen.run, gen.clone, gen.gen)

Generation_write_dax(self, trajdir, force, fl, ds, hp, ord) ==
    LET gendir == Join(trajdir, cannonical_gen(self))
        mk     == IF ~Exists(fl, ds, gendir) THEN makedirs(gendir, fl, ds)
                  ELSE [dirs |-> ds, err |-> NoError]
    IN  IF mk.err # NoError THEN [files |-> fl, dirs |-> ds, err |-> mk.err]
        ELSE WriteNames(self._names, InOrder(DOMAIN self._names, ord.names), 1,
                        gendir, force, fl, mk.dirs, hp)

RECURSIVE WriteGens(_, _, _, _, _, _, _, _, _)
RECURSIVE WriteGensAfter(_, _, _, _, _, _, _, _)
\* the loop of Trajectory.write_dax once the i-th Generation's write_dax
\* has returned w
WriteGensAfter(w, gens, order, i, prefix, force, hp, ord) ==
    IF w.err # NoError THEN w
    ELSE WriteGens(gens, order, i + 1, prefix, force, w.files, w.dirs, hp, ord)

\* the loop of Trajectory.write_dax from the i-th Generation on
WriteGens(gens, order, i, prefix, force, fl, ds, hp, ord) ==
    IF i > Len(order) THEN [files |-> fl, dirs |-> ds, err |-> NoError]
    ELSE WriteGensAfter(Generation_write_dax(gens[order[i]], prefix, force, fl, ds, hp, ord),
                        gens, order, i, prefix, force, hp, ord)

Trajectory_write_dax(self, prefix, force, fl, ds, hp, ord) ==
    LET trajdir == Join(prefix, cannonical_traj(self.run, self.clone))
        mk      == IF ~Exists(fl, ds, trajdir) THEN makedirs(trajdir, fl, ds)
                   ELSE [dirs |-> ds, err |-> NoError]
    IN  IF mk.err # NoError THEN [files |-> fl, dirs |-> ds, err |-> mk.err]
        ELSE WriteGens(self._generations, InOrder(DOMAIN self._generations, ord.gens), 1,
                       prefix, force, fl, mk.dirs, hp, ord)

\* Project.trajectories(): runs in dict order, the clones of each in dict order
Project_trajectories(d, ord) ==
    LET runs == InOrder(DOMAIN d, ord.runs)
        F[i \in 0 .. Len(runs)] ==
            IF i = 0 THEN <<>>
            ELSE F[i - 1] \o
                 [j \in 1 .. Len(InOrder(DOMAIN d[runs[i]], ord.clones)) |->
                     d[runs[i]][InOrder(DOMAIN d[runs[i]], ord.clones)[j]]]
    IN  F[Len(runs)]

RECURSIVE WriteTrajs(_, _, _, _, _, _, _, _)
RECURSIVE WriteTrajsAfter(_, _, _, _, _, _, _)
\* the loop of Project.write_dax once the i-th Trajectory's write_dax has
\* returned w
WriteTrajsAfter(w, trajs, i, root, force, hp, ord) ==
    IF w.err # NoError THEN w
    ELSE WriteTrajs(trajs, i + 1, root, force, w.files, w.dirs, hp, ord)

\* the loop of Project.write_dax from the i-th Trajectory on
WriteTrajs(trajs, i, root, force, fl, ds, hp, ord) ==
    IF i > Len(trajs) THEN [files |-> fl, dirs |-> ds, err |-> NoError]
    ELSE WriteTrajsAfter(Trajectory_write_dax(trajs[i], root, force, fl, ds, hp, ord),
                         trajs, i, root, force, hp, ord)

\* Project.write_dax: the root itself is only logged, never created here
Project_write_dax(self, d, force, fl, ds, hp, ord) ==
    WriteTrajs(Project_trajectories(d, ord), 1, self._root, force, fl, ds, hp, ord)

RECURSIVE LoadNames(_, _, _, _, _)
\* the loop of Generation.load_dax from the i-th listed name on: the
\* (name, Location) pairs it has assigned, and the error that stopped it
LoadNames(order, i, gendir, fl, done) ==
    IF i > Len(order) THEN [assigned |-> done, err |-> NoError]
    ELSE LET loc == Location_from_file(Join(gendir, order[i]), fl)
         IN  IF loc.err # NoError THEN [assigned |-> done, err |-> loc.err]
             ELSE LoadNames(order, i + 1, gendir, fl,
                            Append(done, [name |-> order[i], loc |-> loc.val]))

Generation_load_dax(gendir, fl, ds, order) ==
    IF ~IsDir(ds, gendir) THEN [assigned |-> <<>>, err |-> "OSError"]
    ELSE LoadNames(order, 1, gendir, fl, <<>>)

----------------------------------------------------------------------------
(* load_dax of a Trajectory and of a Project (dax.py, lines 448-460 and    *)
(* 642-653).  Each Location a load constructs is a new object: it is       *)
(* appended to the heap and the Generation's _names points to it.          *)

S_GENstar == <<"G", "E", "N", "*">>
S_RUNstar == <<"R", "U", "N", "*">>
S_CLONEstar == <<"C", "L", "O", "N", "E", "*">>

\* glob.iglob(os.path.join(dir, pat)) for a pattern without a separator: the
\* entries of dir whose name matches, in the order rk ranks the names
glob1(dir, pat, fl, ds, rk) ==
    LET names == InOrder({x \in listdir(dir, fl, ds) : FnMatch(x, pat)}, rk)
    IN  [i \in 1 .. Len(names) |-> Join(dir, names[i])]

RECURSIVE Flatten(_)
Flatten(qs) == IF Len(qs) = 0 THEN <<>> ELSE Head(qs) \o Flatten(Tail(qs))

\* glob.iglob(os.path.join(dir, pat1, pat2)): pat2 in every directory that
\* matches pat1
glob2(dir, pat1, pat2, fl, ds, rk) ==
    LET outer == glob1(dir, pat1, fl, ds, rk)
    IN  Flatten([i \in 1 .. Len(outer) |-> glob1(outer[i], pat2, fl, ds, rk)])

\* self._names[name] = loc for the pairs load_dax has assigned: the objects
\* go on the heap in the order they were constructed
Generation_assign(self, assigned, hp) ==
    [self |-> [self EXCEPT !._names =
                  [n \in {assigned[i].name : i \in 1 .. Len(assigned)} |->
                      Len(hp) + (CHOOSE i \in 1 .. Len(assigned) : assigned[i].name = n)]
                  @@ @],
     heap |-> hp \o [i \in 1 .. Len(assigned) |-> assigned[i].loc]]

\* gen.load_dax(dirpath) has run on the Generation g of a Trajectory: a is
\* the Generation and the heap after its assignments, err how the call ended
Trajectory_assigned(self, g, a, err) ==
    [self |-> [self EXCEPT !._generations[g] = a.self], heap |-> a.heap, err |-> err]

\* gen = self.generation(g, create=True); gen.load_dax(dirpath), for the
\* (r, c, g) that read_cannonical has made of dirpath
LoadGen(self, rcg, dirpath, fl, ds, hp, rk) ==
    IF rcg.err # NoError THEN [self |-> self, heap |-> hp, err |-> rcg.err]
    ELSE Trajectory_assigned(
            Trajectory_generation(self, rcg.val[3], TRUE).self,
            rcg.val[3],
            Generation_assign(
                Trajectory_generation(self, rcg.val[3], TRUE).self._generations[rcg.val[3]],
                Generation_load_dax(dirpath, fl, ds,
                                    InOrder(listdir(dirpath, fl, ds), rk)).assigned,
                hp),
            Generation_load_dax(dirpath, fl, ds,
                                InOrder(listdir(dirpath, fl, ds), rk)).err)

RECURSIVE LoadGens(_, _, _, _, _, _, _)
RECURSIVE LoadGensAfter(_, _, _, _, _, _)
\* the loop of Trajectory.load_dax once the i-th directory has been loaded
\* with outcome t
LoadGensAfter(t, gendirs, i, fl, ds, rk) ==
    IF t.err # NoError THEN t
    ELSE LoadGens(t.self, gendirs, i + 1, fl, ds, t.heap, rk)

\* the loop of Trajectory.load_dax from the i-th directory on
LoadGens(self, gendirs, i, fl, ds, hp, rk) ==
    IF i > Len(gendirs) THEN [self |-> self, heap |-> hp, err |-> NoError]
    ELSE LoadGensAfter(LoadGen(self, read_cannonical(gendirs[i]), gendirs[i],
                               fl, ds, hp, rk),
                       gendirs, i, fl, ds, rk)

Trajectory_load_dax(self, root, fl, ds, hp, rk) ==
    LoadGens(self, glob1(root, S_GENstar, fl, ds, rk), 1, fl, ds, hp, rk)

\* traj.load_dax(dirpath) has run on the Trajectory (r, c) of a Project, with
\* outcome t
Project_loaded(d, r, c, t) ==
    [data |-> [d EXCEPT ![r][c] = t.self], heap |-> t.heap, err |-> t.err]

\* traj = self.trajectory(r, c, create=True); traj.load_dax(dirpath), for
\* the (r, c) that read_cannonical_traj has made of dirpath
LoadTraj(d, rc, dirpath, fl, ds, hp, rk) ==
    IF rc.err # NoError THEN [data |-> d, heap |-> hp, err |-> rc.err]
    ELSE Project_loaded(
            Project_trajectory(d, rc.val[1], rc.val[2], TRUE).data, rc.val[1], rc.val[2],
            Trajectory_load_dax(
                Project_trajectory(d, rc.val[1], rc.val[2], TRUE).data[rc.val[1]][rc.val[2]],
                dirpath, fl, ds, hp, rk))

RECURSIVE LoadTrajs(_, _, _, _, _, _, _)
RECURSIVE LoadTrajsAfter(_, _, _, _, _, _)
\* the loop of Project.load_dax once the i-th directory has been loaded with
\* outcome p
LoadTrajsAfter(p, paths, i, fl, ds, rk) ==
    IF p.err # NoError THEN p
    ELSE LoadTrajs(p.data, paths, i + 1, fl, ds, p.heap, rk)

\* the loop of Project.load_dax from the i-th directory on
LoadTrajs(d, paths, i, fl, ds, hp, rk) ==
    IF i > Len(paths) THEN [data |-> d, heap |-> hp, err |-> NoError]
    ELSE LoadTrajsAfter(LoadTraj(d, read_cannonical_traj(paths[i]), paths[i],
                                 fl, ds, hp, rk),
                        paths, i, fl, ds, rk)

Project_load_dax(self, d, fl, ds, hp, rk) ==
    LoadTrajs(d, glob2(self._root, S_RUNstar, S_CLONEstar, fl, ds, rk), 1, fl, ds, hp, rk)

----------------------------------------------------------------------------
(* The Locations and the filesystem the model starts from.                 *)

\* the objects a caller has built with Location.location from its file list
FileList == <<U_local, U_chirp, U_chirp2, U_dir>>

HeapInit == [i \in 1 .. Len(FileList) |-> Location_location(FileList[i]).val]

Lids == 1 .. Len(heap)

BYTES == <<"#">>

D_tmp == S_tmp
D_root == <<sep>>

\* the data file U_local names, on a filesystem that holds it
LocalData == (HeapInit[1].name :> BYTES)


\* what a call records of the call made before it
NoPrev == [op |-> "init", coord |-> <<>>, err |-> NoError, clean |-> FALSE]

\* no Trajectory or Generation was returned
NoChild == [run |-> -1]

\* no Project was loaded: its trajectories, its generations, its urls by
\* coordinate and basename
NoTree == [trajs |-> {}, gens |-> {}, urls |-> {}]

NoCall ==
    [op |-> "init", lid |-> 0, coord |-> <<>>, force |-> FALSE, pat |-> None,
     lids |-> <<>>, k |-> 0, err |-> NoError, val |-> None, fetch |-> FALSE, res |-> 0,
     clean |-> FALSE, wrote |-> FALSE, names |-> EmptyMap, prev |-> NoPrev,
     create |-> FALSE, child |-> NoChild, loaded |-> NoTree, paths |-> <<>>,
     files |-> FALSE]

NoNaming == [op |-> "init", ids |-> <<>>, path |-> None, res |-> Raise("unparsed")]

----------------------------------------------------------------------------
(* Calls of the naming functions.                                          *)

NamingRoots == {<<"t", "e", "s", "t", "s", "/", "l", "c", "l", "s", ".", "f", "a", "h", ".", "1", "0", "0", "0", "9">>, <<"/", "R", "U", "N", "7", "/", "t", "e", "s", "t", "s">>}

Cannonical(r, c, g) ==
    /\ naming' = [op |-> "cannonical", ids |-> <<r, c, g>>,
                  path |-> cannonical(r, c, g), res |-> Raise("unparsed")]
    /\ UNCHANGED <<procs, heap, proj, data, files, dirs, scopes, resolved, last>>

\* os.path.join(trajdir, cannonical(...)) as write_dax builds a directory name
CannonicalUnder(root, r, c, g) ==
    /\ naming' = [op |-> "join_cannonical", ids |-> <<r, c, g>>,
                  path |-> Join(root, cannonical(r, c, g)), res |-> Raise("unparsed")]
    /\ UNCHANGED <<procs, heap, proj, data, files, dirs, scopes, resolved, last>>

CannonicalTraj(r, c) ==
    /\ naming' = [op |-> "cannonical_traj", ids |-> <<r, c>>,
                  path |-> cannonical_traj(r, c), res |-> Raise("unparsed")]
    /\ UNCHANGED <<procs, heap, proj, data, files, dirs, scopes, resolved, last>>

ReadCannonical ==
    /\ naming.op \in {"cannonical", "join_cannonical"}
    /\ naming.res.err = "unparsed"
    /\ naming' = [naming EXCEPT !.res = read_cannonical(naming.path)]
    /\ UNCHANGED <<procs, heap, proj, data, files, dirs, scopes, resolved, last>>

ReadCannonicalTraj ==
    /\ naming.op = "cannonical_traj"
    /\ naming.res.err = "unparsed"
    /\ naming' = [naming EXCEPT !.res = read_cannonical_traj(naming.path)]
    /\ UNCHANGED <<procs, heap, proj, data, files, dirs, scopes, resolved, last>>

NextNaming ==
    \/ \E r \in Ids, c \in Ids, g \in Ids : Cannonical(r, c, g)
    \/ \E root \in NamingRoots, r \in Ids, c \in Ids, g \in Ids :
            CannonicalUnder(root, r, c, g)
    \/ \E r \in Ids, c \in Ids : CannonicalTraj(r, c)
    \/ ReadCannonical
    \/ ReadCannonicalTraj

\* no other process runs
NoProcs == <<>>

InitBase ==
    /\ naming = NoNaming
    /\ procs = NoProcs
    /\ proj = Project(P_prefix, P_group, P_platform, P_projid)
    /\ data = EmptyMap
    /\ scopes = <<>>
    /\ resolved = {}
    /\ last = NoCall

InitNaming ==
    /\ InitBase
    /\ heap = HeapInit
    /\ files = EmptyMap
    /\ dirs = {D_root, D_tmp}

SpecNaming == InitNaming /\ [][NextNaming]_vars

----------------------------------------------------------------------------
(* resolve and the `with` scope of a Location (dax.py, lines 247-254 and   *)
(* 317-346).  chirp_get is an external command: it exits 0 having written  *)
(* the local file, or exits non-zero, with or without a file left behind.  *)

MaxScopes == 2

FetchOutcomes == {"exit0", "fail", "fail_partial"}

Local_resolve(loc, fl) ==
    [loc |-> loc, files |-> fl, err |-> NoError, val |-> loc.name, fetch |-> FALSE]

\* a resolve that does not look for the cached copy
Chirp_resolve_nocache(loc, fl, ds, outcome) ==
    LET name == _get_local_name(loc)
        self == [loc EXCEPT !.name = name]
    IN  IF outcome = "exit0"
        THEN [loc |-> self, files |-> (name :> BYTES) @@ fl, err |-> NoError,
              val |-> name, fetch |-> TRUE]
        ELSE [loc |-> self,
              files |-> IF outcome = "fail_partial" THEN (name :> <<>>) @@ fl ELSE fl,
              err |-> "IOError", val |-> None, fetch |-> TRUE]

Chirp_resolve(loc, fl, ds, outcome) ==
    LET name == _get_local_name(loc)
        self == [loc EXCEPT !.name = name]
    IN  IF Exists(fl, ds, name)
        THEN [loc |-> self, files |-> fl, err |-> NoError, val |-> name, fetch |-> FALSE]
        ELSE IF outcome = "exit0"
        THEN [loc |-> self, files |-> (name :> BYTES) @@ fl, err |-> NoError,
              val |-> name, fetch |-> TRUE]
        ELSE [loc |-> self,
              files |-> IF outcome = "fail_partial" THEN (name :> <<>>) @@ fl ELSE fl,
              err |-> "IOError", val |-> None, fetch |-> TRUE]

Location_resolve(loc, fl, ds, outcome) ==
    IF loc.cls = "Chirp" THEN Chirp_resolve(loc, fl, ds, outcome)
    ELSE Local_resolve(loc, fl)

\* an __exit__ that leaves the file of a scope it cannot find anything wrong with
Chirp___exit___keep(loc, fl) == [files |-> fl, err |-> NoError]

\* Chirp.__exit__: os.unlink(self.name), whatever the scope's body did
Chirp___exit__(loc, fl) ==
    IF IsFile(fl, loc.name) THEN [files |-> Without(fl, loc.name), err |-> NoError]
    ELSE [files |-> fl, err |-> "OSError"]

Local___exit__(loc, fl) == [files |-> fl, err |-> NoError]

Location___exit__(loc, fl) ==
    IF loc.cls = "Chirp" THEN Chirp___exit__(loc, fl) ELSE Local___exit__(loc, fl)

Resolve(lid) ==
    \E outcome \in FetchOutcomes :
        LET r == Location_resolve(heap[lid], files, dirs, outcome)
        IN  /\ heap' = [heap EXCEPT ![lid] = r.loc]
            /\ files' = r.files
            /\ resolved' = IF r.err = NoError THEN resolved \cup {lid} ELSE resolved
            /\ last' = [NoCall EXCEPT !.op = "resolve", !.lid = lid, !.err = r.err,
                                      !.val = r.val, !.fetch = r.fetch]
            /\ UNCHANGED <<procs, naming, proj, data, dirs, scopes>>

\* `with location as name:` enters the scope when __enter__ returns
Enter(lid) ==
    /\ Len(scopes) < MaxScopes
    /\ \E outcome \in FetchOutcomes :
        LET r == Location_resolve(heap[lid], files, dirs, outcome)
        IN  /\ heap' = [heap EXCEPT ![lid] = r.loc]
            /\ files' = r.files
            /\ resolved' = IF r.err = NoError THEN resolved \cup {lid} ELSE resolved
            /\ scopes' = IF r.err = NoError THEN Append(scopes, lid) ELSE scopes
            /\ last' = [NoCall EXCEPT !.op = "__enter__", !.lid = lid, !.err = r.err,
                                      !.val = r.val, !.fetch = r.fetch]
            /\ UNCHANGED <<procs, naming, proj, data, dirs>>

\* the innermost scope is left, by its body returning or by its body raising
ExitScope(raised) ==
    /\ Len(scopes) > 0
    /\ LET lid == scopes[Len(scopes)]
           r   == Location___exit__(heap[lid], files)
       IN  /\ files' = r.files
           /\ scopes' = SubSeq(scopes, 1, Len(scopes) - 1)
           /\ resolved' = {}
           /\ last' = [NoCall EXCEPT !.op = "__exit__", !.lid = lid,
                          !.err = IF r.err # NoError THEN r.err
                                  ELSE IF raised THEN "BodyError" ELSE NoError]
           /\ UNCHANGED <<procs, naming, heap, proj, data, dirs>>

NextLoc ==
    \/ \E lid \in Lids : Resolve(lid)
    \/ \E lid \in Lids : Enter(lid)
    \/ \E raised \in BOOLEAN : ExitScope(raised)

InitLoc ==
    /\ InitBase
    /\ heap = HeapInit
    /\ files \in {EmptyMap, LocalData}
    /\ dirs = {D_root, D_tmp} \cup (IF files = EmptyMap THEN {} ELSE Ancestors(HeapInit[1].name))

SpecLoc == InitLoc /\ [][NextLoc]_vars

----------------------------------------------------------------------------
(* Calls on the containers: add, load_locations, lookups.                  *)

Patterns == {<<"*", ".", "x", "t", "c">>, <<"r", "e", "s", "u", "l", "t", "s", "-", "?", ".", "*">>, <<"*", ".", "d", "c", "d">>}

HasTraj(d, r, c) == r \in DOMAIN d /\ c \in DOMAIN d[r]

HasGen(d, r, c, g) == HasTraj(d, r, c) /\ g \in DOMAIN d[r][c]._generations

GenAt(d, r, c, g) == d[r][c]._generations[g]

\* the sequences of up to n distinct Location ids a caller may pass to
\* load_locations (a file list yields each of its Locations once)
RECURSIVE LidSeqs(_)
LidSeqs(n) ==
    IF n = 0 THEN {<<>>}
    ELSE LET shorter == LidSeqs(n - 1)
         IN  shorter \cup
             {Append(q, lid) : q \in {x \in shorter : Len(x) = n - 1},
                               lid \in Lids}

Distinct(q) == \A i, j \in 1 .. Len(q) : i # j => q[i] # q[j]

ProjectAdd(r, c, g, lid) ==
    LET a == Project_add(data, r, c, g, lid, heap)
    IN  /\ data' = a.data
        /\ last' = [NoCall EXCEPT !.op = "Project.add", !.coord = <<r, c, g>>,
                                  !.lid = lid, !.err = a.err]
        /\ UNCHANGED <<procs, naming, heap, proj, files, dirs, scopes, resolved>>

TrajectoryAdd(r, c, g, lid) ==
    /\ HasTraj(data, r, c)
    /\ LET a == Trajectory_add(data[r][c], g, lid, heap)
       IN  /\ data' = [data EXCEPT ![r][c] = a.self]
           /\ last' = [NoCall EXCEPT !.op = "Trajectory.add", !.coord = <<r, c, g>>,
                                     !.lid = lid, !.err = a.err]
    /\ UNCHANGED <<procs, naming, heap, proj, files, dirs, scopes, resolved>>

GenerationAdd(r, c, g, lid) ==
    /\ HasGen(data, r, c, g)
    /\ LET a == Generation_add(GenAt(data, r, c, g), lid, heap)
       IN  /\ data' = [data EXCEPT ![r][c]._generations[g] = a.self]
           /\ last' = [NoCall EXCEPT !.op = "Generation.add", !.coord = <<r, c, g>>,
                                     !.lid = lid, !.err = a.err]
    /\ UNCHANGED <<procs, naming, heap, proj, files, dirs, scopes, resolved>>

ProjectLoadLocations(lids) ==
    LET a == Project_load_locations(data, lids, heap)
    IN  /\ data' = a.data
        /\ last' = [NoCall EXCEPT !.op = "Project.load_locations", !.lids = lids,
                                  !.err = a.err, !.k = a.k]
        /\ UNCHANGED <<procs, naming, heap, proj, files, dirs, scopes, resolved>>

GenerationLocation(r, c, g, pattern) ==
    /\ HasGen(data, r, c, g)
    /\ LET a == Generation_location(GenAt(data, r, c, g), pattern)
       IN  last' = [NoCall EXCEPT !.op = "Generation.location", !.coord = <<r, c, g>>,
                                  !.pat = pattern, !.err = a.err, !.res = a.res]
    /\ UNCHANGED <<procs, naming, heap, proj, data, files, dirs, scopes, resolved>>

NextProj ==
    \/ \E co \in Coords, lid \in Lids : ProjectAdd(co[1], co[2], co[3], lid)
    \/ \E co \in Coords, lid \in Lids : TrajectoryAdd(co[1], co[2], co[3], lid)
    \/ \E co \in Coords, lid \in Lids : GenerationAdd(co[1], co[2], co[3], lid)
    \/ \E lids \in {q \in LidSeqs(MaxLocs) : Len(q) > 0 /\ Distinct(q)} :
            ProjectLoadLocations(lids)
    \/ \E co \in Coords, pattern \in Patterns :
            GenerationLocation(co[1], co[2], co[3], pattern)

InitProj ==
    /\ InitBase
    /\ heap = HeapInit
    /\ files = EmptyMap
    /\ dirs = {D_root, D_tmp}

SpecProj == InitProj /\ [][NextProj]_vars

----------------------------------------------------------------------------
(* A project that is filled, persisted back and resolved.          *)

\* the adds a caller makes here: two Locations in one Generation and two in
\* a Generation of another Trajectory
Adds == {<<0, 0, 0, 1>>, <<0, 0, 0, 4>>, <<0, 1, 1, 3>>, <<0, 1, 1, 5>>}

\* a url that ends in a blank: the factory takes it as it is
U_space == <<"f", "i", "l", "e", ":", "/", "/", "/", "d", "/", "x", " ">>

\* the Locations of the file list and one more, built from U_space
HeapPersist == Append(HeapInit, Location_location(U_space).val)

\* where Generation.write_dax puts the Generation (r, c, g) under a root
GenDir(root, r, c, g) == Join(root, cannonical(r, c, g))

PointerPath(root, r, c, g, name) == Join(GenDir(root, r, c, g), name)

\* a tree an earlier persist has left behind: Generation (0, 0, 0) with one
\* pointer file, named as U_local's would be, that holds U_chirp
StalePtr == PointerPath(Project(P_prefix, P_group, P_platform, P_projid)._root,
                        0, 0, 0, Basename(U_local))

StaleFiles == (StalePtr :> U_chirp)

Reverse(q) == [i \in 1 .. Len(q) |-> q[Len(q) + 1 - i]]

\* The orders the dicts of the model may be iterated in, each as a ranking
\* of all keys.  A Generation of the model holds at most two names and a run
\* at most two clones: a ranking and its reverse give every order.  A
\* Trajectory holds one Generation and the Project one run.
NameOrders ==
    {<<Basename(U_local), Basename(U_chirp2), Basename(U_dir), Basename(U_space)>>,
     Reverse(<<Basename(U_local), Basename(U_chirp2), Basename(U_dir), Basename(U_space)>>)}

GenOrders == {<<0, 1>>}

CloneOrders == {<<0, 1>>, <<1, 0>>}

Order(no, go, co) == [names |-> no, gens |-> go, clones |-> co, runs |-> <<0>>]

\* no entry is in the directory (or there is no such directory)
IsClean(dir, fl, ds) == listdir(dir, fl, ds) = {}

LocationToFile(lid, path, force) ==
    LET w == Location_to_file(heap[lid], path, force, files, dirs)
    IN  /\ files' = w.files
        /\ last' = [NoCall EXCEPT !.op = "Location.to_file", !.lid = lid, !.val = path,
                                  !.force = force, !.err = w.err]
        /\ UNCHANGED <<procs, naming, heap, proj, data, dirs, scopes, resolved>>

GenerationWriteDax(r, c, g, force, ord) ==
    /\ HasGen(data, r, c, g)
    /\ LET w == Generation_write_dax(GenAt(data, r, c, g), proj._root, force,
                                     files, dirs, heap, ord)
       IN  /\ files' = w.files
           /\ dirs' = w.dirs
           /\ last' = [NoCall EXCEPT !.op = "Generation.write_dax", !.coord = <<r, c, g>>,
                          !.force = force, !.err = w.err,
                          !.clean = IsClean(GenDir(proj._root, r, c, g), files, dirs),
                          !.wrote = (w.files # files \/ w.dirs # dirs)]
    /\ UNCHANGED <<procs, naming, heap, proj, data, scopes, resolved>>

TrajectoryWriteDax(r, c, force, ord) ==
    /\ HasTraj(data, r, c)
    /\ LET w == Trajectory_write_dax(data[r][c], proj._root, force, files, dirs, heap, ord)
       IN  /\ files' = w.files
           /\ dirs' = w.dirs
           /\ last' = [NoCall EXCEPT !.op = "Trajectory.write_dax", !.coord = <<r, c>>,
                                     !.force = force, !.err = w.err]
    /\ UNCHANGED <<procs, naming, heap, proj, data, scopes, resolved>>

ProjectWriteDax(force, ord) ==
    LET w == Project_write_dax(proj, data, force, files, dirs, heap, ord)
    IN  /\ files' = w.files
        /\ dirs' = w.dirs
        /\ last' = [NoCall EXCEPT !.op = "Project.write_dax", !.force = force,
                                  !.err = w.err]
        /\ UNCHANGED <<procs, naming, heap, proj, data, scopes, resolved>>

\* Generation(r, c, g) is constructed and its load_dax reads the directory
\* write_dax uses for these coordinates
GenerationLoadFresh(r, c, g) ==
    LET gendir == GenDir(proj._root, r, c, g)
    IN  \E order \in Perms(listdir(gendir, files, dirs)) :
            LET l == Generation_load_dax(gendir, files, dirs, order)
            IN  /\ last' = [NoCall EXCEPT !.op = "Generation.load_dax",
                          !.coord = <<r, c, g>>, !.err = l.err,
                          !.prev = [op |-> last.op, coord |-> last.coord,
                                    err |-> last.err, clean |-> last.clean],
                          !.names = [n \in {l.assigned[i].name : i \in 1 .. Len(l.assigned)} |->
                                       (CHOOSE x \in {l.assigned[i] : i \in 1 .. Len(l.assigned)} :
                                           x.name = n).loc]]
                /\ UNCHANGED <<procs, naming, heap, proj, data, files, dirs, scopes, resolved>>

Next ==
    \/ \E a \in Adds : ProjectAdd(a[1], a[2], a[3], a[4])
    \/ \E lid \in {1, 2}, force \in BOOLEAN : LocationToFile(lid, StalePtr, force)
    \/ \E co \in Coords, force \in BOOLEAN, no \in NameOrders :
            GenerationWriteDax(co[1], co[2], co[3], force, Order(no, <<>>, <<>>))
    \/ \E co \in Coords, force \in BOOLEAN, no \in NameOrders, go \in GenOrders :
            TrajectoryWriteDax(co[1], co[2], force, Order(no, go, <<>>))
    \/ \E force \in BOOLEAN, no \in NameOrders, go \in GenOrders, co \in CloneOrders :
            ProjectWriteDax(force, Order(no, go, co))
    \/ \E co \in Coords : GenerationLoadFresh(co[1], co[2], co[3])

Init ==
    /\ InitBase
    /\ heap = HeapPersist
    /\ files \in {EmptyMap, StaleFiles}
    /\ dirs = {D_root, D_tmp} \cup (IF files = EmptyMap THEN {} ELSE Ancestors(StalePtr))

Spec == Init /\ [][Next]_vars

\* single calls of the three kinds that can fail: add, persist, resolve, on
\* one Generation and one Chirp Location
NextCalls ==
    \/ \E lid \in {1, 4} : ProjectAdd(0, 0, 0, lid)
    \/ \E force \in BOOLEAN, no \in NameOrders :
            GenerationWriteDax(0, 0, 0, force, Order(no, <<>>, <<>>))
    \/ Resolve(2)

SpecCalls == Init /\ [][NextCalls]_vars

----------------------------------------------------------------------------
(* A project tree that is loaded: the trees persist leaves and trees with  *)
(* an entry that load cannot read.                                         *)

MaxHeap == 6

\* a prefix that itself holds a RUN component
P_prefix_run == <<"/", "R", "U", "N", "7", "/", "t">>

S_GENx == <<"G", "E", "N", "x">>
S_bad == <<"b", "a", "d">>
U_http == <<"h", "t", "t", "p", ":", "/", "/", "f", "o", "o", ".", "b", "a", "r">>

\* the tree of StaleFiles and in Generation (0, 0, 0) one more pointer file,
\* whose url has a scheme the factory does not know
BadUrlFiles ==
    StaleFiles @@ (Join(Dirname(StalePtr), S_bad) :> U_http)

\* the directory GENx beside GEN0000: its name matches GEN* and holds no number
BadDir == Join(Dirname(Dirname(StalePtr)), S_GENx)

\* the directories and files a Project holds, by identity: what two Projects
\* are compared by
Tree(d, hp) ==
    [trajs |-> UNION {{<<r, c>> : c \in DOMAIN d[r]} : r \in DOMAIN d},
     gens  |-> UNION {UNION {{<<r, c, g>> : g \in DOMAIN d[r][c]._generations} :
                  c \in DOMAIN d[r]} : r \in DOMAIN d},
     urls  |-> UNION {UNION {UNION {
                  {<<r, c, g, n, hp[d[r][c]._generations[g]._names[n]].url>> :
                      n \in DOMAIN d[r][c]._generations[g]._names} :
                  g \in DOMAIN d[r][c]._generations} :
                  c \in DOMAIN d[r]} :
                  r \in DOMAIN d}]

\* the names a directory of the model may hold, in one order; listings run
\* in this order or in the reverse
EntryNames ==
    <<Basename(U_local), Basename(U_chirp2), Basename(U_space), S_bad,
      S_GEN \o Fmt04d(0), S_GEN \o Fmt04d(1), S_GENx,
      S_CLONE \o Fmt04d(0), S_CLONE \o Fmt04d(1), S_RUN \o Fmt04d(0)>>

Rankings == {EntryNames, Reverse(EntryNames)}

LoadAdds == {<<0, 0, 0, 1>>, <<0, 1, 1, 3>>}

PrevOf(c) == [op |-> c.op, coord |-> c.coord, err |-> c.err, clean |-> c.clean]

\* proj.load_dax() on the Project as it is
ProjectLoadDax(rk) ==
    LET l == Project_load_dax(proj, data, files, dirs, heap, rk)
    IN  /\ Len(l.heap) <= MaxHeap
        /\ data' = l.data
        /\ heap' = l.heap
        /\ last' = [NoCall EXCEPT !.op = "Project.load_dax", !.err = l.err,
                                  !.prev = PrevOf(last)]
        /\ UNCHANGED <<procs, naming, proj, files, dirs, scopes, resolved>>

\* a Project with the same prefix, group, platform and projid is constructed
\* and loaded; the caller keeps what it holds and drops the Project
ProjectLoadFresh(rk) ==
    LET l == Project_load_dax(proj, EmptyMap, files, dirs, heap, rk)
    IN  /\ last' = [NoCall EXCEPT !.op = "Project.load_dax(fresh)", !.err = l.err,
                                  !.prev = PrevOf(last),
                                  !.loaded = Tree(l.data, l.heap)]
        /\ UNCHANGED <<procs, naming, heap, proj, data, files, dirs, scopes, resolved>>

\* traj.load_dax(root) on a Trajectory of the Project, from the directory
\* write_dax uses for it
TrajectoryLoadDax(r, c, rk) ==
    /\ HasTraj(data, r, c)
    /\ LET l == Trajectory_load_dax(data[r][c], Join(proj._root, cannonical_traj(r, c)),
                                    files, dirs, heap, rk)
       IN  /\ Len(l.heap) <= MaxHeap
           /\ data' = [data EXCEPT ![r][c] = l.self]
           /\ heap' = l.heap
           /\ last' = [NoCall EXCEPT !.op = "Trajectory.load_dax", !.coord = <<r, c>>,
                                     !.err = l.err, !.prev = PrevOf(last)]
    /\ UNCHANGED <<procs, naming, proj, files, dirs, scopes, resolved>>

ProjectTrajectory(r, c, create) ==
    LET t == Project_trajectory(data, r, c, create)
    IN  /\ data' = t.data
        /\ last' = [NoCall EXCEPT !.op = "Project.trajectory", !.coord = <<r, c>>,
                       !.create = create, !.err = t.err,
                       !.child = IF t.err = NoError THEN t.data[r][c] ELSE NoChild]
        /\ UNCHANGED <<procs, naming, heap, proj, files, dirs, scopes, resolved>>

TrajectoryGeneration(r, c, g, create) ==
    /\ HasTraj(data, r, c)
    /\ LET t == Trajectory_generation(data[r][c], g, create)
       IN  /\ data' = [data EXCEPT ![r][c] = t.self]
           /\ last' = [NoCall EXCEPT !.op = "Trajectory.generation", !.coord = <<r, c, g>>,
                          !.create = create, !.err = t.err,
                          !.child = IF t.err = NoError THEN t.self._generations[g]
                                    ELSE NoChild]
    /\ UNCHANGED <<procs, naming, heap, proj, files, dirs, scopes, resolved>>

ProjectGeneration(r, c, g, create) ==
    LET t == Project_generation(data, r, c, g, create)
    IN  /\ data' = t.data
        /\ last' = [NoCall EXCEPT !.op = "Project.generation", !.coord = <<r, c, g>>,
                       !.create = create, !.err = t.err,
                       !.child = IF t.err = NoError THEN GenAt(t.data, r, c, g)
                                 ELSE NoChild]
        /\ UNCHANGED <<procs, naming, heap, proj, files, dirs, scopes, resolved>>

NextLoad ==
    \/ \E a \in LoadAdds : ProjectAdd(a[1], a[2], a[3], a[4])
    \/ \E force \in BOOLEAN :
            ProjectWriteDax(force, Order(EntryNames, <<0, 1>>, <<0, 1>>))
    \/ \E rk \in Rankings : ProjectLoadFresh(rk)

InitLoad ==
    /\ naming = NoNaming
    /\ procs = NoProcs
    /\ scopes = <<>>
    /\ resolved = {}
    /\ last = NoCall
    /\ data = EmptyMap
    /\ heap = HeapPersist
    /\ \/ /\ proj = Project(P_prefix, P_group, P_platform, P_projid)
          /\ files \in {EmptyMap, StaleFiles, BadUrlFiles}
          /\ \E bad \in SUBSET {BadDir} :
                dirs = {D_root, D_tmp} \cup bad
                       \cup UNION {Ancestors(p) : p \in (DOMAIN files) \cup bad}
       \/ /\ proj = Project(P_prefix_run, P_group, P_platform, P_projid)
          /\ files = EmptyMap
          /\ dirs = {D_root, D_tmp}

SpecLoad == InitLoad /\ [][NextLoad]_vars

\* the same calls where no tree exists yet: every file is one persist wrote
InitClean == InitLoad /\ files = EmptyMap /\ dirs = {D_root, D_tmp}

SpecClean == InitClean /\ [][NextLoad]_vars

\* the adds of a caller that passes one Location object at two coordinates
ModelAdds == {<<0, 0, 0, 1>>, <<0, 1, 1, 1>>}

\* every operation that fills a Project, on one Project: add, ingest, the
\* lookups with and without create, load and persist
NextModel ==
    \/ \E a \in ModelAdds : ProjectAdd(a[1], a[2], a[3], a[4])
    \/ ProjectLoadLocations(<<3, 1>>)
    \/ \E create \in BOOLEAN : ProjectTrajectory(0, 1, create)
    \/ \E create \in BOOLEAN : TrajectoryGeneration(0, 1, 1, create)
    \/ \E co \in Coords, create \in BOOLEAN :
            ProjectGeneration(co[1], co[2], co[3], create)
    \/ ProjectWriteDax(FALSE, Order(EntryNames, <<0, 1>>, <<0, 1>>))
    \/ \E rk \in Rankings : ProjectLoadDax(rk)
    \/ TrajectoryLoadDax(0, 0, EntryNames)

InitModel ==
    /\ InitBase
    /\ heap = HeapPersist
    /\ files = BadUrlFiles
    /\ dirs = {D_root, D_tmp} \cup UNION {Ancestors(p) : p \in DOMAIN files}

SpecModel == InitModel /\ [][NextModel]_vars

----------------------------------------------------------------------------
(* The identity of a Project: the setters (dax.py, lines 534-548).         *)

Groups == {P_group, <<"g">>}
Platforms == {P_platform, <<"p">>}
Projids == {P_projid, 7}

SetGroup(group) ==
    /\ proj' = Project_set_group(proj, group)
    /\ last' = [NoCall EXCEPT !.op = "Project.set_group", !.val = group]
    /\ UNCHANGED <<procs, naming, heap, data, files, dirs, scopes, resolved>>

SetPlatform(platform) ==
    /\ proj' = Project_set_platform(proj, platform)
    /\ last' = [NoCall EXCEPT !.op = "Project.set_platform", !.val = platform]
    /\ UNCHANGED <<procs, naming, heap, data, files, dirs, scopes, resolved>>

SetProjid(projid) ==
    /\ proj' = Project_set_projid(proj, projid)
    /\ last' = [NoCall EXCEPT !.op = "Project.set_projid", !.k = projid]
    /\ UNCHANGED <<procs, naming, heap, data, files, dirs, scopes, resolved>>

NextIdent ==
    \/ \E group \in Groups : SetGroup(group)
    \/ \E platform \in Platforms : SetPlatform(platform)
    \/ \E projid \in Projids : SetProjid(projid)
    \/ \E a \in LoadAdds : ProjectAdd(a[1], a[2], a[3], a[4])
    \/ \E create \in BOOLEAN : ProjectTrajectory(0, 1, create)

SpecIdent == InitProj /\ [][NextIdent]_vars

----------------------------------------------------------------------------
(* The Location factory on urls and on pointer files (dax.py, lines        *)
(* 134-166).                                                               *)

U_files == <<"f", "i", "l", "e", "s", ":", "/", "/", "/", "d", "/", "x">>
U_badport == <<"c", "h", "i", "r", "p", ":", "/", "/", "h", ":", "x", "/", "d">>

UrlInputs == {U_local, U_chirp, U_chirp2, U_http, U_files, U_badport}

PtrPath(c) == <<"/", "d", "/", c>>
PF_local == PtrPath("a")
PF_chirp == PtrPath("b")
PF_http == PtrPath("c")
PF_files == PtrPath("e")
PF_new == PtrPath("m")

\* pointer files as an editor leaves them: the url and a newline, which
\* load_url strips
UrlFiles ==
    (PF_local :> U_local \o <<"\n">>) @@ (PF_chirp :> U_chirp \o <<"\n">>)
        @@ (PF_http :> U_http \o <<"\n">>) @@ (PF_files :> U_files \o <<"\n">>)

PtrInputs == DOMAIN UrlFiles \cup {PF_new}

\* the object the factory returns is new: it gets the next object id
LocationLocation(url) ==
    /\ Len(heap) < MaxHeap
    /\ LET r == Location_location(url)
       IN  /\ heap' = IF r.err = NoError THEN Append(heap, r.val) ELSE heap
           /\ last' = [NoCall EXCEPT !.op = "Location.location", !.val = url,
                          !.err = r.err,
                          !.lid = IF r.err = NoError THEN Len(heap) + 1 ELSE 0]
           /\ UNCHANGED <<procs, naming, proj, data, files, dirs, scopes, resolved>>

LocationFromFile(path) ==
    /\ Len(heap) < MaxHeap
    /\ LET r == Location_from_file(path, files)
       IN  /\ heap' = IF r.err = NoError THEN Append(heap, r.val) ELSE heap
           /\ last' = [NoCall EXCEPT !.op = "Location.from_file", !.val = path,
                          !.err = r.err,
                          !.lid = IF r.err = NoError THEN Len(heap) + 1 ELSE 0]
           /\ UNCHANGED <<procs, naming, proj, data, files, dirs, scopes, resolved>>

NextUrl ==
    \/ \E url \in UrlInputs : LocationLocation(url)
    \/ \E path \in PtrInputs : LocationFromFile(path)
    \/ \E lid \in Lids, force \in BOOLEAN :
           LocationToFile(lid, PF_new, force)

InitUrl ==
    /\ InitBase
    /\ heap = HeapInit
    /\ files = UrlFiles
    /\ dirs = {D_root, D_tmp} \cup UNION {Ancestors(p) : p \in DOMAIN UrlFiles}

SpecUrl == InitUrl /\ [][NextUrl]_vars

----------------------------------------------------------------------------
(* Processes that resolve Chirp Locations on one filesystem (dax.py, lines *)
(* 271-273 and 317-346).  Each process has its own Location object; the    *)
(* filesystem is all they share.  A resolve is two steps, the test of the  *)
(* cache (lines 319-322) and the fetch command (lines 325-338): nothing    *)
(* in the code holds the file between them.                                *)

\* Chirp.resolve, lines 319-322: set the name, look for the cached copy
Chirp_resolve_check(loc, fl, ds) ==
    LET name == _get_local_name(loc)
    IN  [loc |-> [loc EXCEPT !.name = name], hit |-> Exists(fl, ds, name)]

\* Chirp.resolve, lines 325-338: run chirp_get, raise on a non-zero exit
Chirp_resolve_fetch(loc, fl, outcome) ==
    IF outcome = "exit0"
    THEN [files |-> (loc.name :> BYTES) @@ fl, err |-> NoError, val |-> loc.name]
    ELSE [files |-> IF outcome = "fail_partial" THEN (loc.name :> <<>>) @@ fl ELSE fl,
          err |-> "IOError", val |-> None]

Procs == {1, 2}

\* the remote path of U_chirp on another host, without a port
U_chirp_k == <<"c", "h", "i", "r", "p", ":", "/", "/", "k", "/", "R", "U", "N", "0", "/", "C", "L", "O", "N", "E", "0", "/", "r", "e", "s", "u", "l", "t", "s", "-", "0", ".", "x", "t", "c">>

Idle(url) ==
    [pc |-> "idle", loc |-> Location_location(url).val, val |-> None,
     fetched |-> FALSE, overlap |-> FALSE]

\* `with loc as name:` begins: __enter__ calls resolve, which tests the cache
ResolveCheck(p) ==
    /\ procs[p].pc = "idle"
    /\ LET c == Chirp_resolve_check(procs[p].loc, files, dirs)
       IN  /\ procs' = [procs EXCEPT ![p] =
                  [pc |-> IF c.hit THEN "in_scope" ELSE "miss",
                   loc |-> c.loc,
                   val |-> IF c.hit THEN c.loc.name ELSE None,
                   fetched |-> FALSE,
                   overlap |-> ~c.hit /\ \E q \in Procs \ {p} :
                                   /\ procs[q].pc = "miss"
                                   /\ procs[q].loc.name = c.loc.name]]
           /\ last' = [NoCall EXCEPT !.op = "Chirp.resolve(check)", !.k = p,
                                     !.val = IF c.hit THEN c.loc.name ELSE None]
    /\ UNCHANGED <<naming, heap, proj, data, files, dirs, scopes, resolved>>

\* the process that found no cached copy runs the fetch command
ResolveFetch(p, outcome) ==
    /\ procs[p].pc = "miss"
    /\ LET f == Chirp_resolve_fetch(procs[p].loc, files, outcome)
       IN  /\ files' = f.files
           /\ procs' = [procs EXCEPT ![p].pc = IF f.err = NoError THEN "in_scope" ELSE "idle",
                                     ![p].val = f.val,
                                     ![p].fetched = TRUE]
           /\ last' = [NoCall EXCEPT !.op = "Chirp.resolve(fetch)", !.k = p,
                                     !.err = f.err, !.val = f.val, !.fetch = TRUE]
    /\ UNCHANGED <<naming, heap, proj, data, dirs, scopes, resolved>>

\* the body of the `with` ends: __exit__ unlinks the local file
ScopeExit(p) ==
    /\ procs[p].pc = "in_scope"
    /\ LET r == Chirp___exit__(procs[p].loc, files)
       IN  /\ files' = r.files
           /\ procs' = [procs EXCEPT ![p].pc = "idle"]
           /\ last' = [NoCall EXCEPT !.op = "Chirp.__exit__", !.k = p, !.err = r.err]
    /\ UNCHANGED <<naming, heap, proj, data, dirs, scopes, resolved>>

NextRace ==
    \/ \E p \in Procs : ResolveCheck(p)
    \/ \E p \in Procs, outcome \in FetchOutcomes : ResolveFetch(p, outcome)
    \/ \E p \in Procs : ScopeExit(p)

InitRace ==
    /\ naming = NoNaming
    /\ proj = Project(P_prefix, P_group, P_platform, P_projid)
    /\ data = EmptyMap
    /\ scopes = <<>>
    /\ resolved = {}
    /\ last = NoCall
    /\ heap = HeapInit
    /\ \E url \in {U_chirp_k, U_chirp2} : procs = <<Idle(U_chirp), Idle(url)>>
    /\ files \in {EmptyMap, (_get_local_name(Idle(U_chirp).loc) :> BYTES)}
    /\ dirs = {D_root, D_tmp}

SpecRace == InitRace /\ [][NextRace]_vars

----------------------------------------------------------------------------
(* Bulk queries: Project.locations (dax.py, lines 595-619), read to its    *)
(* end as _test does (lines 707-712).                                      *)

\* Trajectory.generations
Trajectory_generations(self, ord) ==
    [j \in 1 .. Len(InOrder(DOMAIN self._generations, ord.gens)) |->
        self._generations[InOrder(DOMAIN self._generations, ord.gens)[j]]]

\* the Generations in the order of the two loops of Project.locations
Project_generations(d, ord) ==
    Flatten([i \in 1 .. Len(Project_trajectories(d, ord)) |->
                Trajectory_generations(Project_trajectories(d, ord)[i], ord)])

\* (the parameter files of the code is asfiles here)
\* what one Generation makes the query yield: nothing when its lookup raises
LocationsOf(self, gen, pattern, asfiles, hp) ==
    LET a == Generation_location(gen, pattern)
    IN  IF a.err # NoError THEN [res |-> <<>>, paths |-> <<>>]
        ELSE IF ~asfiles THEN [res |-> <<a.res>>, paths |-> <<>>]
        ELSE [res |-> <<>>,
              paths |-> <<Join(Join(self._root, cannonical(gen.run, gen.clone, gen.gen)),
                               Basename(hp[a.res].url))>>]

LocationsOver(self, gens, pattern, asfiles, hp) ==
    LET F[i \in 0 .. Len(gens)] ==
            IF i = 0 THEN [res |-> <<>>, paths |-> <<>>]
            ELSE LET y == LocationsOf(self, gens[i], pattern, asfiles, hp)
                 IN  [res |-> F[i - 1].res \o y.res, paths |-> F[i - 1].paths \o y.paths]
    IN  F[Len(gens)]

\* a query without the try/except: the first lookup that raises ends it
Project_locations_raise(self, d, pattern, asfiles, hp, ord) ==
    LET gens == Project_generations(d, ord)
        bad  == {i \in 1 .. Len(gens) : Generation_location(gens[i], pattern).err # NoError}
        stop == IF bad = {} THEN Len(gens) ELSE (CHOOSE i \in bad : \A j \in bad : i <= j) - 1
        y    == LocationsOver(self, SubSeq(gens, 1, stop), pattern, asfiles, hp)
    IN  [err |-> IF bad = {} THEN NoError ELSE "ValueError", res |-> y.res, paths |-> y.paths]

Project_locations(self, d, pattern, asfiles, hp, ord) ==
    LET y == LocationsOver(self, Project_generations(d, ord), pattern, asfiles, hp)
    IN  [err |-> NoError, res |-> y.res, paths |-> y.paths]

QueryAdds == {<<0, 0, 0, 1>>, <<0, 0, 0, 3>>, <<0, 1, 0, 3>>, <<0, 1, 1, 2>>}

ProjectLocations(pattern, asfiles, ord) ==
    LET q == Project_locations(proj, data, pattern, asfiles, heap, ord)
    IN  /\ last' = [NoCall EXCEPT !.op = "Project.locations", !.pat = pattern,
                                  !.files = asfiles, !.err = q.err, !.lids = q.res,
                                  !.paths = q.paths]
        /\ UNCHANGED <<procs, naming, heap, proj, data, files, dirs, scopes, resolved>>

NextQuery ==
    \/ \E a \in QueryAdds : ProjectAdd(a[1], a[2], a[3], a[4])
    \/ \E pattern \in Patterns, asfiles \in BOOLEAN, co \in CloneOrders, go \in {<<0, 1>>, <<1, 0>>} :
            ProjectLocations(pattern, asfiles, Order(EntryNames, go, co))

SpecQuery == InitProj /\ [][NextQuery]_vars

----------------------------------------------------------------------------
(* Construction, add, persist and load on a filesystem that holds only     *)
(* what the Project has written.                                           *)

TrackAdds == {<<0, 0, 0, 1>>, <<0, 0, 0, 3>>, <<0, 1, 1, 5>>}

NextTrack ==
    \/ \E a \in TrackAdds : ProjectAdd(a[1], a[2], a[3], a[4])
    \/ \E create \in BOOLEAN : ProjectGeneration(0, 1, 0, create)
    \/ ProjectWriteDax(FALSE, Order(EntryNames, <<0, 1>>, <<0, 1>>))
    \/ \E rk \in Rankings : ProjectLoadDax(rk)

InitTrack ==
    /\ InitBase
    /\ heap = HeapPersist
    /\ files = EmptyMap
    /\ dirs = {D_root, D_tmp}

SpecTrack == InitTrack /\ [][NextTrack]_vars

----------------------------------------------------------------------------
(* Claims about the naming functions (checked under SpecNaming).           *)

NamingParsed == naming.res.err # "unparsed"

\* C1: for all non-negative r, c, g, read_cannonical(cannonical(r, c, g))
\* raises no error and returns exactly (r, c, g).
C1_RoundTrip ==
    (naming.op = "cannonical" /\ NamingParsed)
        => (naming.res.err = NoError /\ naming.res.val = naming.ids)

----------------------------------------------------------------------------
(* Claims about resolve and scopes (checked under SpecLoc).                *)

IsResolveCall(c) == c.op \in {"resolve", "__enter__"}

\* C3: once resolve() of a Chirp Location has succeeded, and until a scope
\* is left, the next resolve() of that Location returns the same local path
\* and does not run chirp_get.
C3_CacheHit ==
    [][\A lid \in Lids :
         (/\ lid \in resolved
          /\ heap[lid].cls = "Chirp"
          /\ IsResolveCall(last') /\ last'.lid = lid)
            => (/\ last'.err = NoError
                /\ last'.val = heap[lid].name
                /\ ~last'.fetch)]_vars

\* a Chirp Location was resolved a second time, after a first resolve fetched it
C3_Witness ==
    /\ IsResolveCall(last) /\ last.err = NoError /\ ~last.fetch
    /\ heap[last.lid].cls = "Chirp"
    /\ last.lid \in resolved
    /\ last.val = _get_local_name(heap[last.lid])
    /\ files[last.val] = BYTES

\* C4: leaving the scope of a Chirp Location, by return or by an exception
\* of the body, ends with its local cache file deleted; a resolve made
\* outside a scope deletes no file.
C4_ScopeCleanup ==
    [][/\ (last'.op = "__exit__" /\ heap[last'.lid].cls = "Chirp")
            => ~Exists(files', dirs', _get_local_name(heap[last'.lid]))
       /\ (last'.op = "resolve")
            => \A p \in DOMAIN files : p \in DOMAIN files' /\ files'[p] = files[p]]_vars

\* the body of a Chirp Location's scope raised, and the cache file is gone
C4_Witness ==
    /\ last.op = "__exit__" /\ last.err = "BodyError"
    /\ heap[last.lid].cls = "Chirp"
    /\ ~Exists(files, dirs, heap[last.lid].name)

\* C5: every resolve() that returns, of a Local or of a Chirp Location,
\* returns a path that exists on the local filesystem.
C5_ResolveExists ==
    (IsResolveCall(last) /\ last.err = NoError) => Exists(files, dirs, last.val)

----------------------------------------------------------------------------
(* Claims about the containers (checked under SpecProj).                   *)

IsAddCall(c) == c.op \in {"Generation.add", "Trajectory.add", "Project.add"}

NamesAt(d, co) ==
    IF HasGen(d, co[1], co[2], co[3]) THEN GenAt(d, co[1], co[2], co[3])._names
    ELSE EmptyMap

\* the (run, clone, gen, basename, Location) entries of a Project
Entries(d) ==
    UNION {UNION {UNION {
        {<<r, c, g, n, d[r][c]._generations[g]._names[n]>> :
            n \in DOMAIN d[r][c]._generations[g]._names} :
        g \in DOMAIN d[r][c]._generations} :
        c \in DOMAIN d[r]} :
        r \in DOMAIN d}

\* C2: an add of a Location whose basename the Generation already tracks,
\* made on the Generation, the Trajectory or the Project, raises
\* DuplicateException and leaves every mapping as it was.
C2_DuplicateAdd ==
    [][(/\ IsAddCall(last')
        /\ Basename(heap[last'.lid].url) \in DOMAIN NamesAt(data, last'.coord))
          => (last'.err = "DuplicateException" /\ data' = data)]_vars

\* Project.add met a name tracked for another Location, of another url
C2_Witness ==
    /\ last.op = "Project.add" /\ last.err = "DuplicateException"
    /\ LET kept == NamesAt(data, last.coord)[Basename(heap[last.lid].url)]
       IN  kept # last.lid /\ heap[kept].url # heap[last.lid].url

Matches(names, pattern) == {n \in DOMAIN names : FnMatch(n, pattern)}

S_xtc == <<".", "x", "t", "c">>

EntryOf(lids, j) ==
    LET co == fn[heap[lids[j]].url].val
    IN  <<co[1], co[2], co[3], Basename(heap[lids[j]].url), lids[j]>>

\* C8: when the locator or the add raises on entry k of load_locations, the
\* error reaches the caller, entries 1 .. k-1 are in the Project at their
\* coordinates, what the Project held before is still there, and no entry
\* from k on is added.
C8_IngestPrefix ==
    [][(last'.op = "Project.load_locations" /\ last'.err # NoError)
          => LET lids == last'.lids
                 k    == last'.k
             IN  /\ k \in 1 .. Len(lids)
                 /\ last'.err \in {"ValueError", "DuplicateException"}
                 /\ \A j \in 1 .. (k - 1) : EntryOf(lids, j) \in Entries(data')
                 /\ Entries(data) \subseteq Entries(data')
                 /\ \A e \in Entries(data') \ Entries(data) :
                        \E j \in 1 .. (k - 1) : e = EntryOf(lids, j)]_vars

\* the locator raised on the second entry; the first is in the Project
C8_Witness ==
    /\ last.op = "Project.load_locations" /\ last.err = "ValueError"
    /\ last.k = 2 /\ Len(last.lids) >= 2
    /\ EntryOf(last.lids, 1) \in Entries(data)
    /\ \A e \in Entries(data) : e[5] # last.lids[2]

----------------------------------------------------------------------------
(* Claims about pointer files (checked under Spec).                        *)

IsPersistCall(c) ==
    c.op \in {"Generation.write_dax", "Trajectory.write_dax", "Project.write_dax"}

\* the entries a persist call writes pointer files for
Persisted(d, c) ==
    IF c.op = "Generation.write_dax" THEN {e \in Entries(d) : <<e[1], e[2], e[3]>> = c.coord}
    ELSE IF c.op = "Trajectory.write_dax" THEN {e \in Entries(d) : <<e[1], e[2]>> = c.coord}
    ELSE Entries(d)

EntryPath(e) == PointerPath(proj._root, e[1], e[2], e[3], e[4])

\* the urls a Generation tracks, by basename
TrackedUrls(d, co) == [n \in DOMAIN NamesAt(d, co) |-> heap[NamesAt(d, co)[n]].url]

\* the urls load_dax has given the fresh Generation, by basename
LoadedUrls == [n \in DOMAIN last.names |-> last.names[n].url]

\* load_dax into a fresh Generation directly follows a write_dax of the same
\* Generation that returned
AfterPersist ==
    /\ last.op = "Generation.load_dax"
    /\ last.prev.op = "Generation.write_dax"
    /\ last.prev.coord = last.coord
    /\ last.prev.err = NoError

\* C6 as stated: write_dax and then load_dax into a fresh Generation with
\* the same (run, clone, gen) reproduces the basename -> url mapping, for
\* every set of tracked Locations and either value of force.
C6_RoundTrip ==
    AfterPersist => (last.err = NoError /\ LoadedUrls = TrackedUrls(data, last.coord))

\* C6 amended: the round trip reproduces the mapping when the Generation's
\* directory held no entry before write_dax, every tracked basename is a
\* file name (not empty, not '.' or '..') and no tracked url has blanks
\* around it.
C6_RoundTripClean ==
    (/\ AfterPersist
     /\ last.prev.clean
     /\ \A n \in DOMAIN NamesAt(data, last.coord) :
            /\ n \notin {<<>>, <<".">>, <<".", ".">>}
            /\ Strip(heap[NamesAt(data, last.coord)[n]].url) = heap[NamesAt(data, last.coord)[n]].url)
        => (last.err = NoError /\ LoadedUrls = TrackedUrls(data, last.coord))

\* a Generation that tracks a Chirp Location came back from a directory
\* write_dax had made
C6_Witness ==
    /\ AfterPersist /\ last.prev.clean /\ last.err = NoError
    /\ LoadedUrls = TrackedUrls(data, last.coord)
    /\ \E n \in DOMAIN last.names : last.names[n].cls = "Chirp"

\* the skip/force rule for one pointer file: path is where to_file writes
\* url; err is what the call returned.  Within a persist call the
\* directories are made before the files are written, so the path exists
\* for to_file when it is a file before the call or a directory after it.
ToFileRule(path, url, force, err) ==
    LET existed == IsFile(files, path) \/ IsDir(dirs', path)
    IN  /\ (existed /\ ~force)
            => /\ IsFile(files', path) <=> IsFile(files, path)
               /\ IsFile(files, path) => files'[path] = files[path]
        /\ (err = NoError /\ (force \/ ~existed))
            => (IsFile(files', path) /\ files'[path] = url)

\* C9: to_file leaves an existing path as it is when force is False, and
\* leaves the file holding exactly the Location's url when it returns from a
\* forced write or from a write to a path that did not exist; the same holds
\* for every pointer file of a Generation, Trajectory or Project write_dax.
C9_SkipOrForce ==
    [][/\ (last'.op = "Location.to_file")
            => ToFileRule(last'.val, heap[last'.lid].url, last'.force, last'.err)
       /\ IsPersistCall(last')
            => \A e \in Persisted(data, last') :
                  ToFileRule(EntryPath(e), heap[e[5]].url, last'.force, last'.err)]_vars

\* a Project write_dax without force has returned: it has kept the pointer
\* file that held another url and has written one that was missing
C9_Witness ==
    /\ last.op = "Project.write_dax" /\ ~last.force /\ last.err = NoError
    /\ <<0, 0, 0, Basename(U_local), 1>> \in Entries(data)
    /\ IsFile(files, StalePtr) /\ files[StalePtr] = U_chirp
    /\ <<0, 1, 1, Basename(U_chirp2), 3>> \in Entries(data)
    /\ IsFile(files, EntryPath(<<0, 1, 1, Basename(U_chirp2), 3>>))
    /\ files[EntryPath(<<0, 1, 1, Basename(U_chirp2), 3>>)] = U_chirp2

----------------------------------------------------------------------------
(* Claims about failing calls (checked under SpecCalls).                   *)

IsCall(c) == c.op \in {"Project.add", "Generation.write_dax", "resolve"}

\* C10 as stated: an add, persist or resolve call that fails leaves the
\* in-memory model and the filesystem as they were before the call.
C10_AllOrNothing ==
    [][(IsCall(last') /\ last'.err # NoError)
          => (data' = data /\ heap' = heap /\ files' = files /\ dirs' = dirs)]_vars

\* C10 amended: a failed add changes nothing and an add that returns tracks
\* the Location and keeps every other entry.  A failed write_dax changes no
\* object, removes nothing, and leaves each file as it was or holding the url
\* of the Location it points to; a write_dax that returns leaves every
\* pointer path present.  A failed resolve changes no container, directory
\* or existing file, but has set the Location's local name and may leave a
\* file under that name; a Chirp resolve that returns names a path that
\* exists.
C10_FailureEffects ==
    [][/\ (last'.op = "Project.add" /\ last'.err # NoError)
            => (data' = data /\ heap' = heap /\ files' = files /\ dirs' = dirs)
       /\ (last'.op = "Project.add" /\ last'.err = NoError)
            => Entries(data') = Entries(data) \cup
                  {<<last'.coord[1], last'.coord[2], last'.coord[3],
                     Basename(heap[last'.lid].url), last'.lid>>}
       /\ (last'.op = "Generation.write_dax" /\ last'.err # NoError)
            => /\ data' = data /\ heap' = heap
               /\ dirs \subseteq dirs'
               /\ \A p \in DOMAIN files :
                     /\ IsFile(files', p)
                     /\ \/ files'[p] = files[p]
                        \/ \E e \in Persisted(data, last') :
                              p = EntryPath(e) /\ files'[p] = heap[e[5]].url
       /\ (last'.op = "Generation.write_dax" /\ last'.err = NoError)
            => \A e \in Persisted(data, last') : Exists(files', dirs', EntryPath(e))
       /\ (last'.op = "resolve" /\ last'.err # NoError)
            => /\ data' = data /\ dirs' = dirs
               /\ \A p \in DOMAIN files : IsFile(files', p) /\ files'[p] = files[p]
               /\ DOMAIN files' \subseteq DOMAIN files \cup {_get_local_name(heap[last'.lid])}
               /\ heap' = [heap EXCEPT ![last'.lid].name = _get_local_name(heap[last'.lid])]
       /\ (last'.op = "resolve" /\ last'.err = NoError /\ heap[last'.lid].cls = "Chirp")
            => Exists(files', dirs', last'.val)]_vars

\* a write_dax raised after it had made a directory or written a file
C10_Witness ==
    /\ last.op = "Generation.write_dax" /\ last.err = "IOError" /\ last.wrote

----------------------------------------------------------------------------
(* Claims about loading a project tree (checked under SpecLoad).            *)

RECURSIVE Components(_)
\* the names between the separators of a path
Components(p) ==
    IF Find(p, <<sep>>) < 0 THEN <<p>>
    ELSE <<SliceTo(p, Find(p, <<sep>>))>> \o Components(SliceFrom(p, Find(p, <<sep>>) + 1))

\* the components of p below root, or none when p is not below root
Under(root, p) ==
    IF Len(p) > Len(root) + 1 /\ SubSeq(p, 1, Len(root)) = root /\ p[Len(root) + 1] = sep
    THEN Components(SubSeq(p, Len(root) + 2, Len(p)))
    ELSE <<>>

\* a directory name made of a tag and a number, and the number
Numbered(tag, name) == StartsWith(name, tag) /\ IsNumeral(SliceFrom(name, Len(tag)))

NumberOf(tag, name) == ParseInt(SliceFrom(name, Len(tag)))

\* the pointer files at <root>/RUNr/CLONEc/GENg/<name>
Layout(root, fl) ==
    {p \in DOMAIN fl :
        /\ Len(Under(root, p)) = 4
        /\ Numbered(S_RUN, Under(root, p)[1])
        /\ Numbered(S_CLONE, Under(root, p)[2])
        /\ Numbered(S_GEN, Under(root, p)[3])}

\* the (r, c, g, name, url) a pointer file of the layout stands for
Pointer(root, fl, p) ==
    <<NumberOf(S_RUN, Under(root, p)[1]), NumberOf(S_CLONE, Under(root, p)[2]),
      NumberOf(S_GEN, Under(root, p)[3]), Under(root, p)[4], Strip(fl[p])>>

\* the well-formed entries of a tree: the pointer files of the layout whose
\* url the factory takes
WellFormed(root, fl) ==
    {Pointer(root, fl, p) :
        p \in {x \in Layout(root, fl) : Location_location(Strip(fl[x])).err = NoError}}

IsFreshLoad(c) == c.op = "Project.load_dax(fresh)"

\* C11: load of a Project does not raise, and every well-formed entry of the
\* tree is in the loaded Project, whatever malformed entry the tree holds.
C11_LoadSkips ==
    IsFreshLoad(last)
        => (last.err = NoError /\ WellFormed(proj._root, files) \subseteq last.loaded.urls)

\* C13: when write_dax of a Project has returned, the root directory, the
\* directory of every Trajectory and the directory of every Generation exist.
C13_DirsExist ==
    (last.op = "Project.write_dax" /\ last.err = NoError)
        => /\ IsDir(dirs, proj._root)
           /\ \A t \in Tree(data, heap).trajs :
                 IsDir(dirs, Join(proj._root, cannonical_traj(t[1], t[2])))
           /\ \A g \in Tree(data, heap).gens :
                 IsDir(dirs, GenDir(proj._root, g[1], g[2], g[3]))

\* C14: a fresh Project with the same identity, loaded right after write_dax
\* of the Project has returned, has the Project's trajectories, generations
\* and basename -> url mappings.
C14_ProjectRoundTrip ==
    (IsFreshLoad(last) /\ last.prev.op = "Project.write_dax" /\ last.prev.err = NoError)
        => (last.err = NoError /\ last.loaded = Tree(data, heap))

\* C20: when load of a Project has returned, the files of every directory
\* <root>/RUNr/CLONEc/GENg are at the coordinate (r, c, g) its own path
\* components name, whatever the root is.
C20_TrailingIdentity ==
    (IsFreshLoad(last) /\ last.err = NoError)
        => \A p \in Layout(proj._root, files) :
              Pointer(proj._root, files, p) \in last.loaded.urls

----------------------------------------------------------------------------
(* Claims about what a Project holds over time (checked under SpecModel).  *)

\* the (run, clone, gen, basename) keys of a Project
NameKeys(d) == {<<e[1], e[2], e[3], e[4]>> : e \in Entries(d)}

\* C12: across add, ingest, lookups with and without create, load and
\* persist, failing calls included, every Trajectory, every Generation and
\* every basename entry of the Project is still there after the call.
C12_AppendOnly ==
    [][/\ Tree(data, heap).trajs \subseteq Tree(data', heap').trajs
       /\ Tree(data, heap).gens \subseteq Tree(data', heap').gens
       /\ NameKeys(data) \subseteq NameKeys(data')]_vars

\* a load that raised has left an entry of its own beside one that was added
C12_Witness ==
    /\ last.op = "Project.load_dax" /\ last.err = "ValueError"
    /\ \E e \in Entries(data) : e[5] > Len(HeapPersist)
    /\ \E e \in Entries(data) : e[5] <= Len(HeapPersist)

IsLookup(c) == c.op \in {"Project.trajectory", "Project.generation", "Trajectory.generation"}

\* whether the Project holds what a lookup asks for, and what it holds
Known(d, c) ==
    IF c.op = "Project.trajectory" THEN HasTraj(d, c.coord[1], c.coord[2])
    ELSE HasGen(d, c.coord[1], c.coord[2], c.coord[3])

ChildAt(d, c) ==
    IF c.op = "Project.trajectory" THEN d[c.coord[1]][c.coord[2]]
    ELSE GenAt(d, c.coord[1], c.coord[2], c.coord[3])

\* a child as its constructor leaves it
EmptyChild(c) ==
    IF c.op = "Project.trajectory" THEN Trajectory(c.coord[1], c.coord[2])
    ELSE Generation(c.coord[1], c.coord[2], c.coord[3])

\* C16: a lookup of a Trajectory or Generation that does not exist raises
\* and changes nothing when create is not asked for; with create it does not
\* raise and returns the child the Project held, or a new empty one.
C16_Lookup ==
    [][IsLookup(last')
          => /\ (~last'.create /\ ~Known(data, last'))
                    => (last'.err = "ValueError" /\ data' = data)
             /\ last'.create
                    => /\ last'.err = NoError
                       /\ last'.child = IF Known(data, last') THEN ChildAt(data, last')
                                        ELSE EmptyChild(last')
                       /\ last'.child = ChildAt(data', last')]_vars

\* Project.generation without create found the Trajectory and not the
\* Generation: it raised and made nothing
C16_Witness ==
    /\ last.op = "Project.generation" /\ ~last.create /\ last.err = "ValueError"
    /\ HasTraj(data, last.coord[1], last.coord[2])
    /\ ~HasGen(data, last.coord[1], last.coord[2], last.coord[3])

\* the Generations that track a Location object
Owners(d, lid) == {<<e[1], e[2], e[3]>> : e \in {x \in Entries(d) : x[5] = lid}}

\* the coordinates at which a call was asked to add a Location object
AddedAt(c, lid) ==
    IF c.op = "Project.add" /\ c.lid = lid THEN {c.coord}
    ELSE IF c.op = "Project.load_locations"
    THEN {<<EntryOf(c.lids, j)[1], EntryOf(c.lids, j)[2], EntryOf(c.lids, j)[3]>> :
             j \in {i \in 1 .. Len(c.lids) : c.lids[i] = lid}}
    ELSE {}

\* C17 as stated: after any sequence of add, ingest and load operations a
\* Location object is tracked by one Generation and no more.
C17_NonShared ==
    \A lid \in Lids : Cardinality(Owners(data, lid)) <= 1

\* C17 amended: a Location object that a load constructs is tracked by at
\* most one Generation when the load ends, and the Generations that track a
\* Location object gain only the coordinate an add or ingest of that object
\* names.
C17_Ownership ==
    [][/\ \A lid \in (Len(heap) + 1) .. Len(heap') :
             Cardinality(Owners(data', lid)) <= 1
       /\ \A lid \in Lids :
             Owners(data', lid) \subseteq Owners(data, lid) \cup AddedAt(last', lid)]_vars

\* a Location that load constructed has one owner, and one the caller added
\* twice has two
C17_Witness ==
    /\ \E lid \in Lids : lid > Len(HeapPersist) /\ Cardinality(Owners(data, lid)) = 1
    /\ \E lid \in Lids : lid <= Len(HeapPersist) /\ Cardinality(Owners(data, lid)) = 2

----------------------------------------------------------------------------
(* Claims about the identity of a Project (checked under SpecIdent).       *)

\* C15: in every state, whatever setters and other calls were made, the
\* Project's name is '<group>.<platform>.<projid>' and its root is the
\* prefix joined with that name, both made of the fields as they are now.
C15_Derived ==
    /\ proj._name = proj._group \o <<".">> \o proj._platform \o <<".">>
                        \o DecDigits(proj._projid)
    /\ proj._root = Join(proj._prefix,
                         proj._group \o <<".">> \o proj._platform \o <<".">>
                             \o DecDigits(proj._projid))

\* every field has been set to a new value, the projid last
C15_Witness ==
    /\ last.op = "Project.set_projid"
    /\ proj._group = <<"g">> /\ proj._platform = <<"p">> /\ proj._projid = 7
    /\ proj._root = <<"t", "e", "s", "t", "s", "/", "g", ".", "p", ".", "7">>

----------------------------------------------------------------------------
(* Claims about the Location factory (checked under SpecUrl).              *)

\* the scheme of a url: what stands before '://' (None when there is no '://')
Scheme(url) == IF Find(url, S_scheme) < 0 THEN None ELSE SliceTo(url, Find(url, S_scheme))

\* the url the last factory call dispatched on
DispatchedUrl ==
    IF last.op = "Location.location" THEN last.val ELSE Strip(files[last.val])

\* C18: the factory returns a Chirp Location for a url of scheme chirp, a
\* Local Location for a url of scheme file, and raises its unsupported-scheme
\* error (ValueError) for a url of any other scheme; a pointer file's url
\* goes through the same dispatch.
C18_Dispatch ==
    (\/ last.op = "Location.location"
     \/ last.op = "Location.from_file" /\ IsFile(files, last.val))
    => IF Scheme(DispatchedUrl) = S_chirp
       THEN last.err = NoError /\ heap[last.lid].cls = "Chirp"
                               /\ heap[last.lid].url = DispatchedUrl
       ELSE IF Scheme(DispatchedUrl) = S_file
       THEN last.err = NoError /\ heap[last.lid].cls = "Local"
                               /\ heap[last.lid].url = DispatchedUrl
       ELSE last.err = "ValueError"

----------------------------------------------------------------------------
(* Claims about concurrent resolves (checked under SpecRace).              *)

\* C19: processes that resolve Chirp Locations of one remote path use one
\* local cache path, whatever their hosts are, and nothing excludes one
\* from the other: a process that found no cached copy can always run its
\* fetch, a process in a scope can always leave it, and every fetch and
\* every unlink goes to that one path.
C19_SharedCache ==
    /\ \A p \in Procs, q \in Procs :
          (/\ procs[p].loc.remote = procs[q].loc.remote
           /\ procs[p].loc.name # None
           /\ procs[q].loc.name # None)
          => procs[p].loc.name = procs[q].loc.name
    /\ \A p \in Procs :
          /\ procs[p].pc = "miss" => ENABLED ResolveFetch(p, "exit0")
          /\ procs[p].pc = "in_scope" =>
                /\ ENABLED ScopeExit(p)
                /\ procs[p].val = Join(S_tmp, Replace(procs[p].loc.remote, sep, "!"))

\* both processes found no cached copy before either fetched, both ran the
\* fetch against the one path, and the scope exit of process 2 has deleted
\* the file whose name the resolve of process 1 returned
C19_Witness ==
    /\ procs[1].loc.host # procs[2].loc.host
    /\ procs[2].overlap /\ procs[1].fetched /\ procs[2].fetched
    /\ procs[1].pc = "in_scope" /\ procs[1].val = procs[2].loc.name
    /\ last.op = "Chirp.__exit__" /\ last.k = 2 /\ last.err = NoError
    /\ ~IsFile(files, procs[1].val)

----------------------------------------------------------------------------
(* Claims about bulk queries (checked under SpecQuery).                    *)

GenCoords(d) == {co \in Ids \X Ids \X Ids : HasGen(d, co[1], co[2], co[3])}

MatchCount(d, co, pattern) ==
    Cardinality(Matches(GenAt(d, co[1], co[2], co[3])._names, pattern))

\* the Location a Generation with one match holds under the matching name
TheMatch(d, co, pattern) ==
    GenAt(d, co[1], co[2], co[3])._names[
        CHOOSE n \in Matches(GenAt(d, co[1], co[2], co[3])._names, pattern) : TRUE]

Count(q, x) == Cardinality({i \in 1 .. Len(q) : q[i] = x})

\* C21: a bulk locations query does not raise when the lookup of a
\* Generation fails; it yields one result for each Generation in which the
\* pattern matches exactly one basename (the Location, or with files its
\* path under the root) and nothing for the Generations with no match or
\* with several.
C21_BulkQuery ==
    last.op = "Project.locations" =>
        LET one == {co \in GenCoords(data) : MatchCount(data, co, last.pat) = 1}
        IN  /\ last.err = NoError
            /\ Len(last.lids) + Len(last.paths) = Cardinality(one)
            /\ ~last.files =>
                  /\ last.paths = <<>>
                  /\ \A lid \in Lids :
                        Count(last.lids, lid)
                            = Cardinality({co \in one : TheMatch(data, co, last.pat) = lid})
            /\ last.files =>
                  /\ last.lids = <<>>
                  /\ \A co \in one :
                        Count(last.paths,
                              proj._root \o <<sep>> \o S_RUN \o Fmt04d(co[1])
                                  \o <<sep>> \o S_CLONE \o Fmt04d(co[2])
                                  \o <<sep>> \o S_GEN \o Fmt04d(co[3])
                                  \o <<sep>> \o Basename(heap[TheMatch(data, co, last.pat)].url)) = 1

\* a query that met a Generation with two matches, one with none and two
\* with one match, and yielded the two
C21_Witness ==
    /\ last.op = "Project.locations" /\ ~last.files /\ last.err = NoError
    /\ \E co \in GenCoords(data) : MatchCount(data, co, last.pat) > 1
    /\ \E co \in GenCoords(data) : MatchCount(data, co, last.pat) = 1
    /\ Len(last.lids) = 2

----------------------------------------------------------------------------
(* Claims about what the containers hold (checked under SpecTrack).        *)

\* C22: in every state every name of every Generation is the basename of
\* the url of the Location it maps to, every Generation under key g of the
\* Trajectory (r, c) has run r, clone c and gen g, and that Trajectory has
\* run r and clone c.
C22_NamesAndIdentity ==
    \A co \in GenCoords(data) :
        LET t == data[co[1]][co[2]]
            g == GenAt(data, co[1], co[2], co[3])
        IN  /\ t.run = co[1] /\ t.clone = co[2]
            /\ g.run = co[1] /\ g.clone = co[2] /\ g.gen = co[3]
            /\ \A n \in DOMAIN g._names : n = Basename(heap[g._names[n]].url)

====
